---- MODULE Spec2Model ----
(***************************************************************************)
(* A model of freddie: the Schema serializer (freddie/schemas.py), the     *)
(* request-body -> storage-data conversion and the model viewsets' request *)
(* lifecycle (freddie/viewsets/sql.py, generics.py, signals.py) and the    *)
(* many-to-many relation writes (freddie/db/queries.py, fields.py).        *)
(*                                                                         *)
(* Three specifications share the module:                                  *)
(*   SpecSer   Schema.serialize as a function of schema configuration,     *)
(*             entity, inclusion tree and the full flag;                   *)
(*   SpecBody  serialize_request_body_for_db as a function of the          *)
(*             read-only configuration and the request body;               *)
(*   Spec      concurrent create / update / destroy / retrieve requests    *)
(*             against one table with a many-to-many relation.             *)
(***************************************************************************)
EXTENDS Integers, Sequences, FiniteSets, TLC

VARIABLES
    config,     \* schema name -> its Config (SchemaConfig)
    call,       \* SpecSer, SpecBody: the arguments of the call made
    out,        \* SpecSer, SpecBody: what that call returned
    viewset,    \* Spec: the viewset's write_schema and signal mapping
    posts,      \* Spec: table Post, primary key -> row
    post_tags,  \* Spec: table PostTags, the committed <<post, tag>> rows
    next_pk,    \* Spec: the next value of Post's primary key sequence
    req,        \* Spec: client -> the request it has in flight
    started     \* Spec: the number of requests received so far

serVars == <<config, call, out>>
dbVars == <<viewset, posts, post_tags, next_pk, req, started>>
vars == <<config, call, out, viewset, posts, post_tags, next_pk, req, started>>

\* SpecSer and SpecBody make one call and serve no request
NoRequests ==
    /\ viewset = <<>>
    /\ posts = <<>>
    /\ post_tags = {}
    /\ next_pk = 1
    /\ req = <<>>
    /\ started = 0

(***************************************************************************)
(* Values.  Python values are tagged records, so that values of different  *)
(* kinds can be compared.                                                  *)
(***************************************************************************)
None == [k |-> "none"]
IntV(n) == [k |-> "int", v |-> n]
UuidV(n) == [k |-> "uuid", v |-> n]
StrV(n) == [k |-> "str", v |-> n]
MapV(m) == [k |-> "map", m |-> m]
ListV(s) == [k |-> "list", items |-> s]
MethodV(r) == [k |-> "method", r |-> r]
\* A generator and an asynchronous generator, with the items they emit in order
GenV(s) == [k |-> "gen", items |-> s]
AsyncGenV(s) == [k |-> "agen", items |-> s]

EmptyMap == [x \in {} |-> None]

\* {**a, **b}
Merge(a, b) ==
    [x \in DOMAIN a \cup DOMAIN b |-> IF x \in DOMAIN b THEN b[x] ELSE a[x]]

\* helpers.is_mappable / helpers.is_iterable, on the value kinds of the model
is_mappable(obj) == obj.k = "map"
is_iterable(obj) == obj.k \in {"list", "gen"}
is_async_iterable(obj) == obj.k = "agen"

\* Python truthiness of a value: None, 0, {} and [] are falsy
Truthy(v) ==
    CASE v.k = "none" -> FALSE
      [] v.k = "int"  -> v.v # 0
      [] v.k = "map"  -> DOMAIN v.m # {}
      [] v.k = "list" -> Len(v.items) # 0
      [] OTHER        -> TRUE

(***************************************************************************)
(* The schema classes: three levels of nesting.                            *)
(*   Model      id, title, meta: ModelMeta = {}                            *)
(*   ModelMeta  size: int = 0, description, detail: Detail = None          *)
(*   Detail     kind, note                                                 *)
(* and the schema of the viewsets of the request lifecycle, PostSchema     *)
(* (tests/app.py), whose sub-schemas are not descended into here.          *)
(***************************************************************************)
Schemas == {"Model", "ModelMeta", "Detail"}

\* cls.__fields__: field name -> field type ("any" or the name of a sub-schema)
SchemaFieldTypes(cls) ==
    CASE cls = "Model"     -> [id |-> "any", title |-> "any", meta |-> "ModelMeta"]
      [] cls = "ModelMeta" -> [size |-> "any", description |-> "any", detail |-> "Detail"]
      [] cls = "Detail"    -> [kind |-> "any", note |-> "any"]
      [] cls = "Item"      -> [a |-> "any", b |-> "any", ab |-> "any"]
      [] cls = "PostSchema" ->
            [id |-> "any", title |-> "any", slug |-> "any", content |-> "any",
             author |-> "AuthorSchema", author_id |-> "any",
             tags |-> "TagSchema", tags_ids |-> "any", url |-> "any"]

SchemaFieldNames(cls) == DOMAIN SchemaFieldTypes(cls)

\* field.default
FieldDefault(cls, name) ==
    CASE cls = "Model" /\ name = "meta"     -> MapV(EmptyMap)
      [] cls = "ModelMeta" /\ name = "size" -> IntV(0)
      [] OTHER                              -> None

is_subschema(type_) == type_ \in Schemas

get_read_only_fields(cls) ==
    config[cls].read_only_fields \cap SchemaFieldNames(cls)

get_write_only_fields(cls) ==
    config[cls].write_only_fields \cap SchemaFieldNames(cls)

\* Faulty variant: the write-only fields stay in the readable set
get_readable_fields_keeps_write_only(cls) ==
    SchemaFieldNames(cls)

get_readable_fields(cls) ==
    SchemaFieldNames(cls) \ get_write_only_fields(cls)

get_writable_fields(cls) ==
    SchemaFieldNames(cls) \ get_read_only_fields(cls)

\* `a or b` on sets: the empty set is falsy
get_default_readable_fields(cls) ==
    LET configured == config[cls].default_readable_fields \cap SchemaFieldNames(cls)
    IN  IF configured # {} THEN configured ELSE get_readable_fields(cls)

get_default_response_fields_config(cls) ==
    [field_name \in get_default_readable_fields(cls) |->
        LET nested_model == SchemaFieldTypes(cls)[field_name]
        IN  IF is_subschema(nested_model)
            THEN get_default_readable_fields(nested_model)
            ELSE {}]

get_full_response_fields_config(cls) ==
    [field_name \in get_readable_fields(cls) |->
        LET nested_model == SchemaFieldTypes(cls)[field_name]
        IN  IF is_subschema(nested_model)
            THEN get_readable_fields(nested_model)
            ELSE {}]

\* Schema._getattr: key lookup / attribute lookup, call a callable, then
\* `value or default`
_getattr(obj, name, default) ==
    LET looked == IF is_mappable(obj) /\ name \in DOMAIN obj.m THEN obj.m[name] ELSE None
        value  == IF looked.k = "method" THEN looked.r ELSE looked
    IN  IF Truthy(value) THEN value ELSE default

\* fastapi.encoders.jsonable_encoder: a UUID becomes its string, containers
\* are encoded element by element
RECURSIVE jsonable_encoder(_)
jsonable_encoder(v) ==
    CASE v.k = "uuid" -> StrV(v.v)
      [] v.k = "map"  -> MapV([x \in DOMAIN v.m |-> jsonable_encoder(v.m[x])])
      [] v.k = "list" -> ListV([i \in 1..Len(v.items) |-> jsonable_encoder(v.items[i])])
      [] OTHER        -> v

\* Schema.serialize.  `fields` is a mapping field name -> set of sub-field
\* names; None and {} are both falsy and are both the empty mapping here.
\* Faulty variant: the first emitted item is lost
async_for_skips(obj) ==
    ListV(IF obj.items = <<>> THEN <<>> ELSE Tail(obj.items))

\* [obj async for obj in obj]
async_for(obj) ==
    ListV(obj.items)

RECURSIVE serialize(_, _, _, _, _)
serialize(cls, source, fields, jsonable, full) ==
    LET obj == IF is_async_iterable(source) THEN async_for(source) ELSE source IN
    IF ~is_mappable(obj) /\ is_iterable(obj)
    THEN ListV([i \in 1..Len(obj.items) |->
                  serialize(cls, obj.items[i], fields, jsonable, full)])
    ELSE
    LET used == IF DOMAIN fields = {}
                THEN IF full THEN get_full_response_fields_config(cls)
                             ELSE get_default_response_fields_config(cls)
                ELSE fields
        emitted == {field_name \in DOMAIN used : field_name \in get_readable_fields(cls)}
        serialized ==
            [field_name \in emitted |->
                LET subfields   == used[field_name]
                    type_       == SchemaFieldTypes(cls)[field_name]
                    field_value == _getattr(obj, field_name, FieldDefault(cls, field_name))
                IN  IF is_subschema(type_)
                    THEN LET subfields_config ==
                                 IF full THEN get_full_response_fields_config(type_)
                                         ELSE get_default_response_fields_config(type_)
                             requested ==
                                 {subattr \in subfields : subattr \in get_readable_fields(type_)}
                             subattrs == Merge(subfields_config, [subattr \in requested |-> {}])
                         IN  serialize(type_, field_value, subattrs, FALSE, FALSE)
                    ELSE field_value]
    IN  IF jsonable THEN jsonable_encoder(MapV(serialized)) ELSE MapV(serialized)


(***************************************************************************)
(* Request bodies.  A body is the pydantic instance the framework builds   *)
(* from the JSON payload with the viewset's write schema: the fields the   *)
(* payload set (__fields_set__) and a value for every field, the schema's  *)
(* default where the payload is silent.                                    *)
(*   PostSchemaOnWrite   title and slug required, content = ''            *)
(*   PostSchemaOptional  Schema.optional(): every default is None          *)
(*   DraftSchema         no required field, defaults that are not None     *)
(***************************************************************************)
WriteSchemas == {"PostSchemaOnWrite", "PostSchemaOptional", "DraftSchema"}

BodyFieldNames == SchemaFieldNames("PostSchema")

RequiredFields(write_schema) ==
    IF write_schema = "PostSchemaOnWrite" THEN {"title", "slug"} ELSE {}

BodyDefault(write_schema, name) ==
    CASE write_schema = "PostSchemaOnWrite" /\ name = "content"             -> StrV("")
      [] write_schema = "PostSchemaOnWrite" /\ name = "author"              -> MapV(EmptyMap)
      [] write_schema = "PostSchemaOnWrite" /\ name \in {"tags", "tags_ids"} -> ListV(<<>>)
      [] write_schema = "DraftSchema" /\ name = "title"                     -> StrV("t0")
      [] write_schema = "DraftSchema" /\ name = "slug"                      -> StrV("s0")
      [] write_schema = "DraftSchema" /\ name = "content"                   -> StrV("")
      [] OTHER                                                              -> None

\* The fields whose type does not admit None: the ones declared without a
\* None default
NotNullable(write_schema) ==
    {name \in BodyFieldNames : BodyDefault(write_schema, name) # None}
        \cup RequiredFields(write_schema)

\* The framework's validation of the payload against the write schema
BodyValid(write_schema, payload) ==
    /\ RequiredFields(write_schema) \subseteq DOMAIN payload
    /\ \A name \in DOMAIN payload :
           name \in NotNullable(write_schema) => payload[name] # None

parse_body(write_schema, payload) ==
    [fields_set |-> DOMAIN payload,
     values     |-> [name \in BodyFieldNames |->
                        IF name \in DOMAIN payload THEN payload[name]
                        ELSE BodyDefault(write_schema, name)]]

\* Schema.optional(): the partial-update variant of a write schema
optional(write_schema) == "PostSchemaOptional"

\* BaseModel.dict(exclude=..., exclude_unset=..., exclude_none=True,
\* by_alias=True); no field of the schemas declares an alias, so the keys
\* are the field names
dict(body, exclude, exclude_unset) ==
    LET kept == {name \in BodyFieldNames :
                    /\ name \notin exclude
                    /\ exclude_unset => name \in body.fields_set
                    /\ body.values[name] # None}
    IN  [name \in kept |-> body.values[name]]

(***************************************************************************)
(* The model class Post (tests/app.py): its columns, its many-to-many      *)
(* fields and its primary key.                                             *)
(***************************************************************************)
_model_fields == {"id", "title", "slug", "content", "author"}
manytomany == {"tags"}
pk_field_name == "id"

FK_FIELD_POSTFIX == "_id"
M2M_FIELD_POSTFIX == "_ids"

\* The keys that end with a postfix, as <<key without it, postfix>>.
\* "tags_ids" ends with "_ids" and not with "_id".
Postfixed ==
    [author_id |-> <<"author", "_id">>, tags_ids |-> <<"tags", "_ids">>,
     title_id |-> <<"title", "_id">>, foo_id |-> <<"foo", "_id">>]

endswith(key, postfix) ==
    key \in DOMAIN Postfixed /\ Postfixed[key][2] = postfix

strip_postfix(key) == Postfixed[key][1]

\* Faulty variant: nothing is excluded from the body
excluded_keys_none == {}

\* excluded_keys of serialize_request_body_for_db
excluded_keys == get_read_only_fields("PostSchema") \cup {pk_field_name}

\* GenericModelViewSet.serialize_request_body_for_db: the storage data
\* (column -> value) and the relations (many-to-many field -> set of ids)
serialize_request_body_for_db(body, on_create) ==
    LET serialized == dict(body, excluded_keys, ~on_create)
        columns  == {key \in DOMAIN serialized : key \in _model_fields}
        fk_keys  == {key \in DOMAIN serialized :
                        /\ key \notin _model_fields
                        /\ endswith(key, FK_FIELD_POSTFIX)
                        /\ strip_postfix(key) \in _model_fields}
        m2m_keys == {key \in DOMAIN serialized :
                        /\ key \notin _model_fields
                        /\ ~endswith(key, FK_FIELD_POSTFIX)
                        /\ endswith(key, M2M_FIELD_POSTFIX)
                        /\ is_iterable(serialized[key])
                        /\ strip_postfix(key) \in manytomany}
        \* a `<fk>_id` key and the column `<fk>` itself write the same data
        \* key; `<fk>_id` is declared after `<fk>` and so is written last
        fk_data  == [name \in {strip_postfix(key) : key \in fk_keys} |->
                        serialized[CHOOSE key \in fk_keys : strip_postfix(key) = name]]
        col_data == [key \in columns |-> serialized[key]]
    IN  [data    |-> Merge(col_data, fk_data),
         related |-> [name \in {strip_postfix(key) : key \in m2m_keys} |->
                        LET value == serialized[CHOOSE key \in m2m_keys : strip_postfix(key) = name]
                        IN  {value.items[i] : i \in 1..Len(value.items)}]]

(***************************************************************************)
(* SpecSer: the inputs of Schema.serialize.                                *)
(***************************************************************************)
\* The names a Config may list: the class's fields and one name that is no field
ConfigurableNames(cls) ==
    CASE cls = "Model"     -> {"title", "meta", "another"}
      [] cls = "ModelMeta" -> {"description", "detail"}
      [] cls = "Detail"    -> {"note"}

Configs(cls) ==
    [default_readable_fields : SUBSET ConfigurableNames(cls),
     read_only_fields        : {{"id", "invalid"}},
     write_only_fields       : SUBSET (ConfigurableNames(cls) \cap SchemaFieldNames(cls))]

\* Entities: a complete one (with a computed field and a UUID), and a sparse
\* one whose values are missing or empty
DetailEntity == MapV([kind |-> IntV(1), note |-> IntV(2)])
MetaEntity == MapV([size |-> IntV(3), description |-> MethodV(IntV(4)), detail |-> DetailEntity])
FullEntity == MapV([id |-> UuidV(7), title |-> IntV(5), meta |-> MetaEntity])
SparseEntity == MapV([id |-> IntV(0), meta |-> MapV([size |-> IntV(0)])])
Entities ==
    {FullEntity, SparseEntity, ListV(<<SparseEntity, FullEntity>>), ListV(<<>>),
     GenV(<<FullEntity, SparseEntity, FullEntity>>),
     AsyncGenV(<<FullEntity, FullEntity, SparseEntity>>)}

\* Inclusion trees: requested fields of Model, with sub-fields for meta
RequestableNames == {"title", "meta", "foo"}
RequestableSubNames == {"size", "description", "detail"}
Trees ==
    UNION {[names -> {{}}] : names \in SUBSET (RequestableNames \ {"meta"})}
    \cup
    UNION {{Merge(t, [x \in {"meta"} |-> subs]) :
                t \in UNION {[names -> {{}}] : names \in SUBSET (RequestableNames \ {"meta"})}}
           : subs \in SUBSET RequestableSubNames}

NoCall == [made |-> FALSE]

SerInit ==
    /\ \E model \in Configs("Model"), meta \in Configs("ModelMeta"), detail \in Configs("Detail") :
           config = [cls \in Schemas |->
                        CASE cls = "Model"     -> model
                          [] cls = "ModelMeta" -> meta
                          [] cls = "Detail"    -> detail]
    /\ call = NoCall
    /\ out = None
    /\ NoRequests

Serialize ==
    /\ ~call.made
    /\ \E obj \in Entities, fields \in Trees, full \in BOOLEAN :
           /\ call' = [made |-> TRUE, obj |-> obj, fields |-> fields, full |-> full]
           /\ out' = serialize("Model", obj, fields, TRUE, full)
           /\ UNCHANGED <<config, dbVars>>

SerNext == Serialize

SpecSer == SerInit /\ [][SerNext]_vars

(***************************************************************************)
(* SpecBody: the inputs of serialize_request_body_for_db.                  *)
(***************************************************************************)
Absent == [k |-> "absent"]

PayloadChoices ==
    [id        : {Absent, IntV(5)},
     title     : {Absent, None, StrV("t1")},
     slug      : {Absent, StrV("s1")},
     content   : {Absent, StrV("c1")},
     author    : {Absent, MapV([id |-> IntV(3)])},
     author_id : {Absent, IntV(1)},
     tags      : {Absent, ListV(<<MapV([id |-> IntV(3)])>>)},
     tags_ids  : {Absent, ListV(<<>>), ListV(<<1, 2>>)},
     url       : {Absent, StrV("u")}]

\* The JSON payloads: any subset of the schema's keys
Payloads ==
    {[name \in {n \in DOMAIN choice : choice[n] # Absent} |-> choice[name]] :
        choice \in PayloadChoices}

ReadOnlyChoices == SUBSET {"title", "author", "tags", "url", "invalid"}

PostConfig(read_only) ==
    [cls \in {"PostSchema"} |->
        [default_readable_fields |-> {},
         read_only_fields        |-> read_only,
         write_only_fields       |-> {}]]

BodyInit ==
    /\ \E read_only \in ReadOnlyChoices : config = PostConfig(read_only)
    /\ call = NoCall
    /\ out = None
    /\ NoRequests

SerializeBody ==
    /\ ~call.made
    /\ \E write_schema \in WriteSchemas, payload \in Payloads, on_create \in BOOLEAN :
           /\ BodyValid(write_schema, payload)
           /\ call' = [made |-> TRUE, write_schema |-> write_schema,
                       payload |-> payload, on_create |-> on_create]
           /\ out' = serialize_request_body_for_db(parse_body(write_schema, payload), on_create)
           /\ UNCHANGED <<config, dbVars>>

BodyNext == SerializeBody

SpecBody == BodyInit /\ [][BodyNext]_vars

(***************************************************************************)
(* Spec: the request lifecycle of a model viewset over table Post, with    *)
(* its many-to-many relation to Tag through PostTags.  A request advances  *)
(* one await at a time; the code between two awaits is one step.           *)
(***************************************************************************)
Clients == {"c1", "c2"}

MaxRequests == 2

\* The rows of tables Author and Tag; no request writes them
Authors == {1}
Tags == {1, 2}

\* class Post(BaseDBModel)
Columns == {"title", "slug", "content", "author"}
NotNullColumns == {"title", "slug", "content"}
ColumnDefault(column) == IF column = "content" THEN StrV("") ELSE None

\* The constraint a statement violates when it leaves `row` under key pk
Violation(rows, pk, row) ==
    IF \E column \in NotNullColumns : row[column] = None
    THEN "NotNullViolation"
    ELSE IF \E other \in DOMAIN rows \ {pk} : rows[other].slug = row.slug
    THEN "UniqueViolation"
    ELSE IF row.author # None /\ row.author.v \notin Authors
    THEN "ForeignKeyViolation"
    ELSE "none"

\* Faulty variant: every database error is answered 500
dispatch_db_error_opaque(exc) == [status |-> 500, detail |-> "Database error"]

\* dispatch_db_error: the Problem raised for a database error
dispatch_db_error(exc) ==
    IF exc \in {"UniqueViolation", "ForeignKeyViolation"}
    THEN [status |-> 400, detail |-> exc]
    ELSE [status |-> 500, detail |-> "Database error"]

\* Model.insert(**data), executed: the new row, or the error
perform_create(data) ==
    LET row == [column \in Columns |->
                    IF column \in DOMAIN data THEN data[column] ELSE ColumnDefault(column)]
        exc == Violation(posts, next_pk, row)
    IN  [exc |-> exc, pk |-> IF exc = "none" THEN next_pk ELSE 0, row |-> row]

\* Faulty variant: the row is replaced, columns without data get defaults
perform_update_replace(pk, data) ==
    IF pk \notin DOMAIN posts
    THEN [exc |-> "none", updated |-> 0, row |-> <<>>]
    ELSE LET row == [column \in Columns |->
                        IF column \in DOMAIN data THEN data[column]
                        ELSE IF column \in NotNullColumns THEN StrV("") ELSE None]
             exc == Violation(posts, pk, row)
         IN  [exc |-> exc, updated |-> IF exc = "none" THEN 1 ELSE 0, row |-> row]

\* Model.update(**data).where(pk), executed: the number of rows updated
perform_update(pk, data) ==
    IF pk \notin DOMAIN posts
    THEN [exc |-> "none", updated |-> 0, row |-> <<>>]
    ELSE LET row == [column \in Columns |->
                        IF column \in DOMAIN data THEN data[column] ELSE posts[pk][column]]
             exc == Violation(posts, pk, row)
         IN  [exc |-> exc, updated |-> IF exc = "none" THEN 1 ELSE 0, row |-> row]

\* Faulty variant: a row is always reported deleted
perform_destroy_one(pk) == 1

\* Model.delete().where(pk), executed: the number of rows deleted
perform_destroy(pk) == IF pk \in DOMAIN posts THEN 1 ELSE 0

\* Faulty variant: every primary key is taken to exist
get_object_or_404_found(pk) == [found |-> TRUE, obj |-> None]

\* get_object_or_404: the row under pk with its related ids
get_object_or_404(pk) ==
    IF pk \in DOMAIN posts
    THEN [found |-> TRUE,
          obj |-> [pk |-> pk, row |-> posts[pk],
                   tags |-> {row[2] : row \in {r \in post_tags : r[1] = pk}}]]
    ELSE [found |-> FALSE, obj |-> None]

(***************************************************************************)
(* Transactions on PostTags.  Inside manager.atomic() a statement's effect *)
(* is staged and reaches the table at commit; outside, at once.            *)
(***************************************************************************)
NoTx == [active |-> FALSE, deleted |-> {}, inserted |-> {}]

\* Faulty variant: no transaction, each statement commits by itself
atomic_autocommit == NoTx

\* async with manager.atomic()
atomic == [active |-> TRUE, deleted |-> {}, inserted |-> {}]

\* Faulty variant: the clear deletes nothing
clear_none(rows, pk) == {}

\* QueryBuilder.clear: the rows of the entity
clear(rows, pk) == {row \in rows : row[1] = pk}

\* QueryBuilder.add: one row per related id
add(pk, related_model_ids) == {<<pk, related_id>> : related_id \in related_model_ids}

\* manager.execute of a delete / an insert on PostTags
execute_delete(rows, tx, deleted) ==
    IF tx.active
    THEN [rows |-> rows, tx |-> [tx EXCEPT !.deleted = deleted]]
    ELSE [rows |-> rows \ deleted, tx |-> tx]

execute_insert(rows, tx, inserted) ==
    IF tx.active
    THEN [rows |-> rows, tx |-> [tx EXCEPT !.inserted = inserted]]
    ELSE [rows |-> rows \cup inserted, tx |-> tx]

\* leaving manager.atomic() without an exception
commit(rows, tx) == (rows \ tx.deleted) \cup tx.inserted

\* The foreign keys of an inserted PostTags row
ForeignKeysHold(row) == row[1] \in DOMAIN posts /\ row[2] \in Tags

(***************************************************************************)
(* Signals.                                                                *)
(***************************************************************************)
Signal == {"post_save", "pre_delete", "post_delete"}

\* get_signals_map of a viewset that declares one handler per signal
get_signals_map ==
    [post_save   |-> <<"on_post_save">>,
     pre_delete  |-> <<"on_pre_delete">>,
     post_delete |-> <<"on_post_delete">>]

\* Faulty variant: send calls the handlers itself
send_runs_handlers(r, signal_type) ==
    [r EXCEPT !.ran = @ \o viewset.mapping[signal_type],
              !.scheduled = @ \o viewset.mapping[signal_type]]

\* SignalDispatcher.send, on the request r that owns the dispatcher: every
\* handler of the signal is added to the request's background tasks
send(r, signal_type) ==
    [r EXCEPT !.bg_tasks = @ \o viewset.mapping[signal_type],
              !.scheduled = @ \o viewset.mapping[signal_type]]

(***************************************************************************)
(* Requests.  pc is the await the request is suspended at.                 *)
(***************************************************************************)
Kinds == {"create", "update", "update_partial", "destroy", "retrieve"}

HasBody(kind) == kind \in {"create", "update", "update_partial"}

\* The bodies clients send
RequestPayloads ==
    {<<>>,
     [title |-> StrV("t2"), slug |-> StrV("s2"), tags_ids |-> ListV(<<1, 2>>)],
     [title |-> StrV("t2"), slug |-> StrV("s1"), author_id |-> IntV(1)],
     [title |-> StrV("t3"), slug |-> StrV("s3"), tags_ids |-> ListV(<<1, 9>>)],
     [slug |-> StrV("s3"), author_id |-> IntV(9)],
     [tags_ids |-> ListV(<<2>>)],
     [tags_ids |-> ListV(<<>>)]}

Idle ==
    [pc |-> "idle", kind |-> "none", pk |-> 0, payload |-> <<>>,
     status |-> 0, detail |-> "", cancelled |-> FALSE,
     tx |-> NoTx, ids |-> {}, bg_tasks |-> <<>>,
     \* history of the request, read by the properties only
     ran |-> <<>>, scheduled |-> <<>>, checked |-> FALSE, existed |-> FALSE,
     validated |-> FALSE, writes |-> 0, cleared |-> {}, overlapped |-> FALSE,
     db_error |-> FALSE, unhandled |-> FALSE]

\* The endpoint's body parameter: write_schema, or its optional() for PATCH
request_body_type(kind) ==
    IF kind = "update_partial" THEN optional(viewset.write_schema) ELSE viewset.write_schema

\* An exception leaves the endpoint: the response carries no deferred task,
\* and a transaction the request had open is rolled back
Problem(r, status, detail) ==
    [r EXCEPT !.pc = "done", !.status = status, !.detail = detail,
              !.tx = NoTx, !.bg_tasks = <<>>]

\* The request is inside a call of set_related
InSetRelatedCall(r) == r.pc \in {"rel_clear", "rel_insert", "rel_commit"}

\* An exception that is not a Problem leaves the endpoint: the framework
\* answers 500 'Internal Server Error' and re-raises it to the server
Unhandled(r) ==
    [Problem(r, 500, "Internal Server Error") EXCEPT !.unhandled = TRUE]

Init ==
    /\ config = PostConfig({"url", "author", "tags"})
    /\ call = NoCall
    /\ out = None
    /\ \E write_schema \in WriteSchemas :
           viewset = [write_schema |-> write_schema, mapping |-> get_signals_map]
    /\ posts = [pk \in {1} |-> [title |-> StrV("t1"), slug |-> StrV("s1"),
                                content |-> StrV(""), author |-> None]]
    /\ post_tags = {<<1, 1>>}
    /\ next_pk = 2
    /\ req = [c \in Clients |-> Idle]
    /\ started = 0

\* The framework parses the path and the body and calls the endpoint; a body
\* that does not validate against the body type is answered 422 at once
Receive(c) ==
    /\ req[c].pc \in {"idle", "done"}
    /\ started < MaxRequests
    /\ \E kind \in Kinds, pk \in 1..next_pk, payload \in RequestPayloads :
           /\ kind = "create" => pk = next_pk
           /\ ~HasBody(kind) => payload = <<>>
           /\ LET r == [Idle EXCEPT !.kind = kind, !.payload = payload,
                                    !.pk = IF kind = "create" THEN 0 ELSE pk]
              IN  req' = [req EXCEPT ![c] =
                            IF HasBody(kind) /\ ~BodyValid(request_body_type(kind), payload)
                            THEN Problem(r, 422, "value_error")
                            ELSE [r EXCEPT !.pc = IF kind = "create" THEN "validate" ELSE "get"]]
    /\ started' = started + 1
    /\ UNCHANGED <<serVars, viewset, posts, post_tags, next_pk>>

\* await self.get_object_or_404(pk, ...) at the head of retrieve, update and
\* destroy
GetObject(c) ==
    /\ req[c].pc = "get"
    /\ LET r == [req[c] EXCEPT !.checked = TRUE, !.existed = (req[c].pk \in DOMAIN posts)]
       IN  req' = [req EXCEPT ![c] =
                     IF ~get_object_or_404(r.pk).found
                     THEN Problem(r, 404, "Post not found")
                     ELSE [r EXCEPT !.pc = CASE r.kind = "retrieve" -> "respond"
                                             [] r.kind = "destroy"  -> "write"
                                             [] OTHER               -> "validate"]]
    /\ UNCHANGED <<serVars, viewset, posts, post_tags, next_pk, started>>

\* await self.validate_request_body(body[, obj]): the viewset's hook, which
\* may raise
Validate(c) ==
    /\ req[c].pc = "validate"
    /\ \E raised \in BOOLEAN :
           LET r == [req[c] EXCEPT !.validated = TRUE]
           IN  req' = [req EXCEPT ![c] =
                         IF raised THEN Problem(r, 400, "invalid")
                         ELSE [r EXCEPT !.pc = "write"]]
    /\ UNCHANGED <<serVars, viewset, posts, post_tags, next_pk, started>>

\* Faulty variant: the data are never found empty
not_data_never(data) == FALSE

\* `if not data` of ModelCreateViewset.create
not_data(data) == DOMAIN data = {}

StorageData(r, on_create) ==
    serialize_request_body_for_db(parse_body(request_body_type(r.kind), r.payload), on_create)

RelatedIds(related) == IF "tags" \in DOMAIN related THEN related["tags"] ELSE {}

WithRow(rows, pk, row) ==
    [key \in DOMAIN rows \cup {pk} |-> IF key = pk THEN row ELSE rows[key]]

\* Another request's open transaction holds a lock on a row of pk
Locked(c, pk) ==
    \E d \in Clients \ {c} :
        req[d].tx.active /\ \E row \in req[d].tx.deleted \cup req[d].tx.inserted : row[1] = pk

\* ModelCreateViewset.create up to the end of perform_create
Create(c) ==
    /\ req[c].pc = "write" /\ req[c].kind = "create"
    /\ LET r == req[c]
           sr == StorageData(r, TRUE)
           res == perform_create(sr.data)
           ids == RelatedIds(sr.related)
           w == [r EXCEPT !.writes = @ + 1]
       IN  IF not_data(sr.data)
           THEN /\ req' = [req EXCEPT ![c] = Problem(r, 422, "Empty request body")]
                /\ UNCHANGED <<posts, next_pk>>
           ELSE IF res.exc # "none"
           THEN /\ req' = [req EXCEPT ![c] =
                            Problem(w, dispatch_db_error(res.exc).status,
                                    dispatch_db_error(res.exc).detail)]
                /\ UNCHANGED <<posts, next_pk>>
           ELSE /\ posts' = WithRow(posts, res.pk, res.row)
                /\ next_pk' = next_pk + 1
                \* `if not ids: continue`
                /\ req' = [req EXCEPT ![c] =
                            [w EXCEPT !.pk = res.pk, !.ids = ids,
                                      !.pc = IF ids # {} THEN "rel_clear" ELSE "fetch"]]
    /\ UNCHANGED <<serVars, viewset, post_tags, started>>

\* ModelUpdateViewset.update up to the end of perform_update
Update(c) ==
    /\ req[c].pc = "write" /\ req[c].kind \in {"update", "update_partial"}
    /\ LET r == req[c]
           sr == StorageData(r, FALSE)
           res == perform_update(r.pk, sr.data)
           w == [r EXCEPT !.writes = @ + 1]
           next == [pc |-> IF "tags" \in DOMAIN sr.related THEN "rel_clear" ELSE "fetch",
                    ids |-> RelatedIds(sr.related)]
       IN  IF DOMAIN sr.data = {}
           THEN /\ req' = [req EXCEPT ![c] = [r EXCEPT !.pc = next.pc, !.ids = next.ids]]
                /\ UNCHANGED posts
           ELSE IF res.exc # "none"
           THEN /\ req' = [req EXCEPT ![c] =
                            Problem(w, dispatch_db_error(res.exc).status,
                                    dispatch_db_error(res.exc).detail)]
                /\ UNCHANGED posts
           ELSE IF res.updated = 0
           THEN /\ req' = [req EXCEPT ![c] = Problem(w, 500, "Post not updated")]
                /\ UNCHANGED posts
           ELSE /\ posts' = WithRow(posts, r.pk, res.row)
                /\ req' = [req EXCEPT ![c] = [w EXCEPT !.pc = next.pc, !.ids = next.ids]]
    /\ UNCHANGED <<serVars, viewset, post_tags, next_pk, started>>

\* set_related: entering manager.atomic() and executing delete_query.  The
\* statement waits while another transaction holds a row of the entity.
RelClear(c) ==
    /\ req[c].pc = "rel_clear"
    /\ ~Locked(c, req[c].pk)
    /\ LET r == req[c]
           deleted == clear(post_tags, r.pk)
           res == execute_delete(post_tags, atomic, deleted)
           others == {d \in Clients \ {c} : req[d].tx.active /\ req[d].pk = r.pk}
       IN  /\ post_tags' = res.rows
           /\ req' = [d \in Clients |->
                        IF d = c
                        THEN [r EXCEPT !.tx = res.tx, !.writes = @ + 1,
                                       !.cleared = {row[2] : row \in deleted},
                                       !.overlapped = (others # {}),
                                       !.pc = IF r.ids # {} THEN "rel_insert" ELSE "rel_commit"]
                        ELSE IF d \in others THEN [req[d] EXCEPT !.overlapped = TRUE]
                        ELSE req[d]]
    /\ UNCHANGED <<serVars, viewset, posts, next_pk, started>>

\* set_related: executing insert_query; a foreign-key violation leaves the
\* atomic block with the exception, which rolls the transaction back
RelInsert(c) ==
    /\ req[c].pc = "rel_insert"
    /\ LET r == req[c]
           inserted == add(r.pk, r.ids)
           res == execute_insert(post_tags, r.tx, inserted)
           w == [r EXCEPT !.writes = @ + 1]
       IN  IF \A row \in inserted : ForeignKeysHold(row)
           THEN /\ post_tags' = res.rows
                /\ req' = [req EXCEPT ![c] = [w EXCEPT !.tx = res.tx, !.pc = "rel_commit"]]
           ELSE /\ post_tags' = post_tags
                /\ req' = [req EXCEPT ![c] =
                            Problem(w, dispatch_db_error("ForeignKeyViolation").status,
                                    dispatch_db_error("ForeignKeyViolation").detail)]
    /\ UNCHANGED <<serVars, viewset, posts, next_pk, started>>

\* set_related: leaving manager.atomic(); create and update then return pk
RelCommit(c) ==
    /\ req[c].pc = "rel_commit"
    /\ post_tags' = commit(post_tags, req[c].tx)
    /\ req' = [req EXCEPT ![c] = [req[c] EXCEPT !.tx = NoTx, !.pc = "fetch"]]
    /\ UNCHANGED <<serVars, viewset, posts, next_pk, started>>

\* ModelDestroyViewset.destroy, then the endpoint's signals.send and its
\* Response('', 204): no await separates them.  PostTags rows go with their
\* post (on_delete='CASCADE').
Destroy(c) ==
    /\ req[c].pc = "write" /\ req[c].kind = "destroy"
    /\ ~Locked(c, req[c].pk)
    /\ LET r == req[c]
           w == [r EXCEPT !.writes = @ + 1]
           sent == send(w, "post_delete")
       IN  IF perform_destroy(r.pk) = 0
           THEN /\ req' = [req EXCEPT ![c] = Problem(w, 500, "Post not deleted")]
                /\ UNCHANGED <<posts, post_tags>>
           ELSE /\ posts' = [key \in DOMAIN posts \ {r.pk} |-> posts[key]]
                /\ post_tags' = {row \in post_tags : row[1] # r.pk}
                /\ req' = [req EXCEPT ![c] =
                            [sent EXCEPT !.status = 204,
                                         !.pc = IF sent.bg_tasks = <<>> THEN "done" ELSE "tasks"]]
    /\ UNCHANGED <<serVars, viewset, next_pk, started>>

\* perform_api_action of create and update: the fresh copy is fetched with
\* get_object_or_404, and the endpoint calls signals.send(POST_SAVE, ...)
Fetch(c) ==
    /\ req[c].pc = "fetch"
    /\ req' = [req EXCEPT ![c] =
                 IF ~get_object_or_404(req[c].pk).found
                 THEN Problem(req[c], 404, "Post not found")
                 ELSE [send(req[c], "post_save") EXCEPT !.pc = "respond"]]
    /\ UNCHANGED <<serVars, viewset, posts, post_tags, next_pk, started>>

\* await self.response(obj, ...): Schema.serialize of the object, which may
\* raise; the framework then answers 500
Respond(c) ==
    /\ req[c].pc = "respond"
    /\ \E raised \in BOOLEAN :
           req' = [req EXCEPT ![c] =
                     IF raised
                     THEN Unhandled(req[c])
                     ELSE [req[c] EXCEPT
                              !.status = IF req[c].kind = "create" THEN 201 ELSE 200,
                              !.pc = IF req[c].bg_tasks = <<>> THEN "done" ELSE "tasks"]]
    /\ UNCHANGED <<serVars, viewset, posts, post_tags, next_pk, started>>

\* The framework runs the response's background tasks in order, after the
\* response has been sent
RunTask(c) ==
    /\ req[c].pc = "tasks"
    /\ req' = [req EXCEPT ![c] =
                 [req[c] EXCEPT !.ran = Append(@, Head(req[c].bg_tasks)),
                                !.bg_tasks = Tail(@),
                                !.pc = IF Len(req[c].bg_tasks) = 1 THEN "done" ELSE "tasks"]]
    /\ UNCHANGED <<serVars, viewset, posts, post_tags, next_pk, started>>

\* The request is cancelled at the await it is suspended at
Suspended == {"get", "validate", "write", "rel_clear", "rel_insert", "rel_commit",
              "fetch", "respond"}

Cancel(c) ==
    /\ req[c].pc \in Suspended
    /\ req' = [req EXCEPT ![c] = [Problem(req[c], 0, "") EXCEPT !.cancelled = TRUE]]
    /\ UNCHANGED <<serVars, viewset, posts, post_tags, next_pk, started>>

\* The statements executed inside `with db_errors_handler()`: the row
\* statement of create and update, and set_related
db_errors_handler(r) ==
    \/ InSetRelatedCall(r)
    \/ r.pc = "write" /\ r.kind \in {"create", "update", "update_partial"}

\* The request is suspended at a statement the database is executing
StatementPending(r) ==
    /\ r.pc \in {"get", "write", "rel_clear", "rel_insert", "rel_commit", "fetch"}
    /\ r.pc = "write" /\ r.kind = "create" => DOMAIN StorageData(r, TRUE).data # {}
    /\ r.pc = "write" /\ r.kind \in {"update", "update_partial"} =>
           DOMAIN StorageData(r, FALSE).data # {}

\* The statement fails with a database error that is no constraint
\* violation (connection lost, statement timeout, ...): nothing is written;
\* inside db_errors_handler it becomes ServerError('Database error'),
\* elsewhere the driver's exception leaves the endpoint
DbError(c) ==
    /\ StatementPending(req[c])
    /\ LET r == [req[c] EXCEPT !.db_error = TRUE,
                               !.writes = IF req[c].pc \in {"get", "fetch"} THEN @ ELSE @ + 1]
       IN  req' = [req EXCEPT ![c] =
                     IF db_errors_handler(r)
                     THEN Problem(r, dispatch_db_error("OperationalError").status,
                                  dispatch_db_error("OperationalError").detail)
                     ELSE Unhandled(r)]
    /\ UNCHANGED <<serVars, viewset, posts, post_tags, next_pk, started>>

Next ==
    \E c \in Clients :
        \/ Receive(c)
        \/ GetObject(c)
        \/ Validate(c)
        \/ Create(c)
        \/ Update(c)
        \/ RelClear(c)
        \/ RelInsert(c)
        \/ RelCommit(c)
        \/ Destroy(c)
        \/ Fetch(c)
        \/ Respond(c)
        \/ RunTask(c)
        \/ Cancel(c)
        \/ DbError(c)

Spec == Init /\ [][Next]_vars

(***************************************************************************)
(* Field selectors (freddie/viewsets/dependencies.py).  A query string is  *)
(* a sequence of characters; a field name is the string of a word.         *)
(***************************************************************************)
Letters == {"a", "b"}

\* \w of the regular expressions, within the alphabet
WordChars == Letters

\* The characters from ',' to '_' in code order: the range `,-_` of
\* ResponseFieldsQuery.REGEX
CommaToUnderscore ==
    {",", "-", ".", "/", "0", "1", "2", "3", "4", "5", "6", "7", "8", "9",
     ":", ";", "<", "=", ">", "?", "@", "[", "\\", "]", "^", "_"}
        \cup {"A", "B", "C", "D", "E", "F", "G", "H", "I", "J", "K", "L", "M",
              "N", "O", "P", "Q", "R", "S", "T", "U", "V", "W", "X", "Y", "Z"}

\* The character class [a-zA-Z(),-_] of ResponseFieldsQuery.REGEX
QueryClass == Letters \cup CommaToUnderscore \cup {"(", ")"}

\* Query(regex=REGEX.pattern): the validation matches the pattern [...]+ at
\* the start of the value
ResponseFieldsQuery(value) == Len(value) >= 1 /\ value[1] \in QueryClass

\* The length of the longest run of characters of `class` in s from index i
RECURSIVE RunLen(_, _, _)
RunLen(s, i, class) ==
    IF i > Len(s) \/ s[i] \notin class THEN 0 ELSE 1 + RunLen(s, i + 1, class)

\* str.split(','), without the empty tokens
RECURSIVE split(_)
split(s) ==
    IF s = <<>> THEN {}
    ELSE LET n == RunLen(s, 1, {ch \in {s[i] : i \in 1..Len(s)} : ch # ","})
         IN  (IF n = 0 THEN {} ELSE {SubSeq(s, 1, n)})
                 \cup (IF n + 1 >= Len(s) THEN {} ELSE split(SubSeq(s, n + 2, Len(s))))

\* set(subfields.split(',')): the empty token stays
split_all(s) ==
    split(s) \cup (IF \/ s[1] = "," \/ s[Len(s)] = ","
                      \/ \E i \in 1..(Len(s) - 1) : s[i] = "," /\ s[i + 1] = ","
                   THEN {<<>>} ELSE {})

\* Faulty variant: the pattern matches nowhere
REGEX_match_nowhere(s, i) ==
    [matched |-> FALSE, field |-> <<>>, subfields |-> <<>>, end |-> i]

\* ResponseFields.REGEX matched at index i of s:
\* (?P<field>\w+)\((?P<subfields>[\w,]+)\)
REGEX_match(s, i) ==
    LET w == RunLen(s, i, WordChars)
        open == i + w
        u == RunLen(s, open + 1, WordChars \cup {","})
        close == open + 1 + u
    IN  IF /\ w >= 1 /\ open <= Len(s) /\ s[open] = "("
           /\ u >= 1 /\ close <= Len(s) /\ s[close] = ")"
        THEN [matched |-> TRUE, field |-> SubSeq(s, i, open - 1),
              subfields |-> SubSeq(s, open + 1, close - 1), end |-> close]
        ELSE [matched |-> FALSE, field |-> <<>>, subfields |-> <<>>, end |-> i]

\* re_sub(cls.REGEX, get_subfields, query_param) from index i on: the text
\* left over and the subfields collected, a later match of a field replacing
\* an earlier one
RECURSIVE re_sub(_, _, _, _)
re_sub(s, i, rest, subfields) ==
    IF i > Len(s) THEN [rest |-> rest, subfields |-> subfields]
    ELSE LET m == REGEX_match(s, i)
         IN  IF m.matched
             THEN re_sub(s, m.end + 1, rest,
                         [field \in DOMAIN subfields \cup {m.field} |->
                             IF field = m.field THEN split_all(m.subfields)
                             ELSE subfields[field]])
             ELSE re_sub(s, i + 1, Append(rest, s[i]), subfields)

\* ResponseFields.parse_query; strip(',') and the skipping of empty tokens
\* are part of split
parse_query(query_param) ==
    LET subbed == re_sub(query_param, 1, <<>>, <<>>)
        rest == [field \in split(subbed.rest) |-> {}]
    IN  [field \in DOMAIN rest \cup DOMAIN subbed.subfields |->
            IF field \in DOMAIN subbed.subfields THEN subbed.subfields[field]
            ELSE rest[field]]

(***************************************************************************)
(* SpecFields: the `fields` query parameter of a fielded viewset of the    *)
(* schema Item, and the re-joining of an inclusion tree.                   *)
(***************************************************************************)
MaxQueryLen == 5

Alphabet == Letters \cup {",", "(", ")", ".", "!"}

Queries == UNION {[1..n -> Alphabet] : n \in 0..MaxQueryLen}

\* The characters of a field name
Chars(name) ==
    CASE name = "a"  -> <<"a">>
      [] name = "b"  -> <<"b">>
      [] name = "ab" -> <<"a", "b">>

ItemConfigs ==
    [default_readable_fields : SUBSET {"a", "ab"},
     read_only_fields        : {{}},
     write_only_fields       : SUBSET {"a", "b"}]

\* FieldedViewsetMixin.setup_response_fields: the `allowed` and `defaults`
\* given to ResponseFields.setup
setup_response_fields(schema) ==
    [allowed  |-> {Chars(name) : name \in get_readable_fields(schema)},
     defaults |-> LET d == get_default_response_fields_config(schema)
                  IN  [key \in {Chars(name) : name \in DOMAIN d} |->
                          {Chars(sub) : sub \in d[CHOOSE name \in DOMAIN d : Chars(name) = key]}]]

\* ResponseFields.__init__: the data of the inclusion tree; a parameter that
\* was not given (None) is falsy as the empty string is
ResponseFields(deps, fields) ==
    LET parsed == IF fields # <<>> THEN parse_query(fields) ELSE <<>>
        kept == [key \in {k \in DOMAIN parsed : k \in deps.allowed} |-> parsed[key]]
    IN  Merge(deps.defaults, kept)

\* The orders in which the members of a set can be iterated
Orders(S) ==
    {f \in [1..Cardinality(S) -> S] : \A i, j \in DOMAIN f : f[i] = f[j] => i = j}

\* ','.join(tokens)
RECURSIVE join(_)
join(tokens) ==
    IF tokens = <<>> THEN <<>>
    ELSE IF Len(tokens) = 1 THEN tokens[1]
    ELSE tokens[1] \o <<",">> \o join(Tail(tokens))

\* The selector of a tree: field(sub1,sub2) for a field with sub-fields, the
\* bare name for a field without, in the given iteration orders
fields_config(tree, order, suborder) ==
    join([i \in DOMAIN order |->
            LET field == order[i]
            IN  IF tree[field] = {} THEN field
                ELSE field \o <<"(">> \o join(suborder[field]) \o <<")">>])

TreeNames == {Chars(name) : name \in SchemaFieldNames("Item")}
TreeSubNames == {<<"a">>, <<"b">>}
FieldTrees == UNION {[names -> SUBSET TreeSubNames] : names \in SUBSET TreeNames}

FieldsInit ==
    /\ \E item \in ItemConfigs : config = [cls \in {"Item"} |-> item]
    /\ call = NoCall
    /\ out = None
    /\ NoRequests

\* GET with ?fields=<query>, or without the parameter
RequestFields ==
    /\ ~call.made
    /\ \E given \in BOOLEAN, fields \in Queries :
           /\ ~given => fields = <<>>
           /\ call' = [made |-> TRUE, op |-> "fields", given |-> given, fields |-> fields]
           /\ out' = IF given /\ ~ResponseFieldsQuery(fields)
                     THEN [status |-> 422, data |-> <<>>]
                     ELSE [status |-> 200,
                           data |-> ResponseFields(setup_response_fields("Item"), fields)]
           /\ UNCHANGED <<config, dbVars>>

\* A tree is joined into a selector and the selector is parsed
Rejoin ==
    /\ ~call.made
    /\ \E tree \in FieldTrees :
         \E order \in Orders(DOMAIN tree) :
           \E suborder \in [DOMAIN tree -> UNION {Orders(subs) : subs \in SUBSET TreeSubNames}] :
               /\ \A field \in DOMAIN tree :
                      {suborder[field][i] : i \in DOMAIN suborder[field]} = tree[field]
               /\ call' = [made |-> TRUE, op |-> "join", tree |-> tree,
                           fields |-> fields_config(tree, order, suborder)]
               /\ out' = [status |-> 200,
                          data |-> parse_query(fields_config(tree, order, suborder))]
               /\ UNCHANGED <<config, dbVars>>

FieldsNext == RequestFields \/ Rejoin

SpecFields == FieldsInit /\ [][FieldsNext]_vars

(***************************************************************************)
(* SpecList: viewsets with the Paginator dependency are constructed, then  *)
(* a list request is made.  `config` holds the class attributes            *)
(* Paginator._limit_query and Paginator._offset_query, `viewset` the list  *)
(* route of each constructed viewset, `posts` the ordered collection.      *)
(***************************************************************************)
MaxItems == 3

PaginatedViewsets == {"v1", "v2"}

\* class Paginator: default_limit, max_limit, default_offset, max_offset
Paginator ==
    [default_limit |-> 100, max_limit |-> 1000, default_offset |-> 0, max_offset |-> None]

\* The Paginator attribute of a viewset class: the Paginator class itself or
\* a declaration that overrides its limits
PaginatorDeclarations ==
    {Paginator,
     [Paginator EXCEPT !.default_limit = 2, !.max_limit = 2],
     [Paginator EXCEPT !.max_limit = 2000]}

\* Paginator._limit_query and Paginator._offset_query as the class is defined
PaginatorQueries ==
    [_limit_query  |-> [default |-> Paginator.default_limit, ge |-> 1,
                        le |-> IntV(Paginator.max_limit)],
     _offset_query |-> [default |-> Paginator.default_offset, ge |-> 0,
                        le |-> Paginator.max_offset]]

\* Paginator.__init_subclass__: the Query objects of the base class are
\* reached through cls and assigned in place
__init_subclass__(queries, cls) ==
    [_limit_query  |-> [queries._limit_query EXCEPT
                            !.default = cls.default_limit, !.le = IntV(cls.max_limit)],
     _offset_query |-> [queries._offset_query EXCEPT
                            !.default = cls.default_offset, !.le = cls.max_offset]]

\* Paginator.setup: the class itself is returned as it is, any other
\* declaration becomes a new subclass
Paginator_setup(queries, dependency_class) ==
    IF dependency_class = Paginator THEN queries
    ELSE __init_subclass__(queries, dependency_class)

\* Query(ge=..., le=...) on a value
QueryValid(query, value) ==
    /\ value >= query.ge
    /\ query.le = None \/ value <= query.le.v

\* ModelListViewset.paginate_query on the ordered rows: LIMIT and OFFSET
paginate_query(rows, paginator) ==
    LET first == IF paginator.offset # 0 THEN paginator.offset + 1 ELSE 1
        last  == IF paginator.limit # 0 /\ first + paginator.limit - 1 < Len(rows)
                 THEN first + paginator.limit - 1 ELSE Len(rows)
    IN  SubSeq(rows, first, last)

Collections ==
    {rows \in UNION {[1..n -> 1..MaxItems] : n \in 0..MaxItems} :
        \A i, j \in DOMAIN rows : rows[i] = rows[j] => i = j}

LimitValues == {0, 1, 2, 3, 1000, 1001, 2000, 2001}
OffsetValues == {-1, 0, 1, 2}

ListInit ==
    /\ config = PaginatorQueries
    /\ viewset = <<>>
    /\ posts \in Collections
    /\ call = NoCall
    /\ out = None
    /\ post_tags = {} /\ next_pk = 1 /\ req = <<>> /\ started = 0

\* PaginatedListViewset(): get_list_dependencies sets the paginator up and
\* the list route is added with the Query objects as they are now
ConstructPaginated(v) ==
    /\ v \notin DOMAIN viewset
    /\ ~call.made
    /\ \E declaration \in PaginatorDeclarations :
           /\ config' = Paginator_setup(config, declaration)
           /\ viewset' = [w \in DOMAIN viewset \cup {v} |->
                             IF w = v
                             THEN [Paginator |-> declaration,
                                   limit |-> config'._limit_query,
                                   offset |-> config'._offset_query]
                             ELSE viewset[w]]
    /\ UNCHANGED <<call, out, posts, post_tags, next_pk, req, started>>

\* GET <v>/?limit=..&offset=..
List(v) ==
    /\ v \in DOMAIN viewset
    /\ ~call.made
    /\ \E limit \in LimitValues, offset \in OffsetValues, limit_given, offset_given \in BOOLEAN :
           LET paginator == [limit  |-> IF limit_given THEN limit ELSE viewset[v].limit.default,
                             offset |-> IF offset_given THEN offset ELSE viewset[v].offset.default]
               valid == /\ limit_given => QueryValid(viewset[v].limit, limit)
                        /\ offset_given => QueryValid(viewset[v].offset, offset)
           IN  /\ ~limit_given => limit = 0
               /\ ~offset_given => offset = 0
               /\ call' = [made |-> TRUE, viewset |-> v, limit_given |-> limit_given,
                           offset_given |-> offset_given, limit |-> limit, offset |-> offset]
               /\ out' = IF valid
                         THEN [status |-> 200, queried |-> TRUE,
                               items |-> paginate_query(posts, paginator)]
                         ELSE [status |-> 422, queried |-> FALSE, items |-> <<>>]
    /\ UNCHANGED <<config, viewset, posts, post_tags, next_pk, req, started>>

ListNext == \E v \in PaginatedViewsets : ConstructPaginated(v) \/ List(v)

SpecList == ListInit /\ [][ListNext]_vars

(***************************************************************************)
(* SpecRoutes: a viewset with declared custom routes is constructed, then  *)
(* a request is dispatched by its router.  A path is the sequence of its   *)
(* segments.  `config` holds the @route declarations of the class and its  *)
(* pk_type, `viewset` the route table of the instance.                     *)
(***************************************************************************)
\* The decorated methods, in the order of inspect.getmembers (by name)
RouteMethods == <<"m1", "m2">>

\* route(detail, path, name, **kwargs); '' and None are the same falsy value
RouteArguments ==
    [detail  : BOOLEAN,
     path    : {<<>>, <<"p">>},
     name    : {"", "n1"},
     methods : {{"GET"}, {"POST"}}]

\* The attributes the decorator sets on the endpoint
route(endpoint, arguments) ==
    LET endpoint_name == IF arguments.name # "" THEN arguments.name ELSE endpoint
    IN  [endpoint  |-> endpoint,
         name      |-> endpoint_name,
         path      |-> IF arguments.path # <<>> THEN arguments.path ELSE <<endpoint_name>>,
         is_detail |-> arguments.detail,
         methods   |-> arguments.methods]

DETAIL_ROUTE_PATTERN == <<"{pk}">>

\* get_declared_routes: the decorated members in the order of getmembers
get_declared_routes(declared) ==
    LET members == SelectSeq(RouteMethods, LAMBDA m : m \in DOMAIN declared)
    IN  [i \in DOMAIN members |-> route(members[i], declared[members[i]])]

\* GenericViewSet.add_routes_from_class_declaration
add_routes_from_class_declaration(declared) ==
    LET routes == get_declared_routes(declared)
    IN  [i \in DOMAIN routes |->
            [path     |-> IF routes[i].is_detail
                          THEN DETAIL_ROUTE_PATTERN \o routes[i].path
                          ELSE routes[i].path,
             methods  |-> routes[i].methods,
             endpoint |-> routes[i].endpoint]]

\* api_actions of ViewSet: the routes of the standard actions
api_actions ==
    <<[path |-> <<>>,                 methods |-> {"GET"},    endpoint |-> "list"],
      [path |-> DETAIL_ROUTE_PATTERN, methods |-> {"GET"},    endpoint |-> "retrieve"],
      [path |-> <<>>,                 methods |-> {"POST"},   endpoint |-> "create"],
      [path |-> DETAIL_ROUTE_PATTERN, methods |-> {"PUT"},    endpoint |-> "update"],
      [path |-> DETAIL_ROUTE_PATTERN, methods |-> {"DELETE"}, endpoint |-> "destroy"]>>

\* Faulty variant: the standard routes are added first
GenericViewSet_standard_first(declared) ==
    api_actions \o add_routes_from_class_declaration(declared)

\* GenericViewSet.__init__: the routes in the order they are added
GenericViewSet(declared) ==
    add_routes_from_class_declaration(declared) \o api_actions

\* A path matches a route's pattern: segment by segment, {pk} matching any
PathMatches(pattern, path) ==
    /\ Len(pattern) = Len(path)
    /\ \A i \in DOMAIN pattern : pattern[i] = "{pk}" \/ pattern[i] = path[i]

\* The pk of the path converts to pk_type
PkValid(pk_type, pattern, path) ==
    \A i \in DOMAIN pattern :
        (pattern[i] = "{pk}" /\ pk_type = "int") => path[i] = "5"

\* The router: the first route matching path and method handles the
\* request; a path that matches with other methods only is 405, no match 404
Dispatch(routes, pk_type, method, path) ==
    LET full    == {i \in DOMAIN routes :
                        PathMatches(routes[i].path, path) /\ method \in routes[i].methods}
        partial == {i \in DOMAIN routes : PathMatches(routes[i].path, path)}
    IN  IF full # {}
        THEN LET i == CHOOSE i \in full : \A j \in full : i <= j
             IN  IF PkValid(pk_type, routes[i].path, path)
                 THEN [status |-> 200, endpoint |-> routes[i].endpoint]
                 ELSE [status |-> 422, endpoint |-> routes[i].endpoint]
        ELSE IF partial # {} THEN [status |-> 405, endpoint |-> ""]
        ELSE [status |-> 404, endpoint |-> ""]

Segments == {"m1", "m2", "n1", "p", "5"}
Paths == UNION {[1..n -> Segments] : n \in 0..2}

RoutesInit ==
    /\ \E names \in SUBSET {"m1", "m2"}, pk_type \in {"int", "str"} :
         \E declared \in [names -> RouteArguments] :
             config = [declared |-> declared, pk_type |-> pk_type]
    /\ viewset = <<>>
    /\ call = NoCall
    /\ out = None
    /\ posts = <<>> /\ post_tags = {} /\ next_pk = 1 /\ req = <<>> /\ started = 0

\* The viewset is instantiated
ConstructViewset ==
    /\ viewset = <<>>
    /\ viewset' = [routes |-> GenericViewSet(config.declared)]
    /\ UNCHANGED <<config, call, out, posts, post_tags, next_pk, req, started>>

\* A request to the viewset's router
Request ==
    /\ viewset # <<>>
    /\ ~call.made
    /\ \E method \in {"GET", "POST"}, path \in Paths :
           /\ call' = [made |-> TRUE, method |-> method, path |-> path]
           /\ out' = Dispatch(viewset.routes, config.pk_type, method, path)
    /\ UNCHANGED <<config, viewset, posts, post_tags, next_pk, req, started>>

RoutesNext == ConstructViewset \/ Request

SpecRoutes == RoutesInit /\ [][RoutesNext]_vars

(***************************************************************************)
(* SpecConstr: a model viewset over one string column `title` is           *)
(* constructed, then a create request is made.  A string is modelled by    *)
(* its length; a maximum length that is not set (None) is 0, which the     *)
(* code treats as None does.  `config` holds the declarations of the       *)
(* viewset class.                                                          *)
(***************************************************************************)
MaxTitleLen == 4

\* The declarations of a string field: constr(max_length=..), an Enum whose
\* longest member has max_length characters, or str with Field(max_length=..)
TitleFields ==
    [type_ : {"constr", "str"}, max_length : {0, 2, 3}, read_only : BOOLEAN]
        \cup [type_ : {"enum"}, max_length : {2, 3}, read_only : BOOLEAN]

NoSchema == [type_ |-> "none", max_length |-> 0, read_only |-> FALSE]

\* The column of the model: CharField(max_length=2) or TextField()
TitleColumns == {[type_ |-> "CharField", max_length |-> 2], [type_ |-> "TextField", max_length |-> 0]}

\* Schema.get_field_max_length: int(max_length) if max_length else None
get_field_max_length(field) ==
    CASE field.type_ = "constr" -> field.max_length
      [] field.type_ = "enum"   -> field.max_length
      [] OTHER                  -> field.max_length

\* GenericModelViewSet.validate_schema_constraints: TRUE when nothing is raised
validate_schema_constraints(declarations) ==
    LET schema_max_length == get_field_max_length(declarations.schema)
    IN  ~ /\ declarations.column.type_ = "CharField"
          /\ ~declarations.schema.read_only
          /\ (schema_max_length = 0 \/ schema_max_length > declarations.column.max_length)

\* request_body_type = self.write_schema or self.schema
title_body_type(declarations) ==
    IF declarations.write_schema # NoSchema THEN declarations.write_schema
    ELSE declarations.schema

\* The validation of the request body's title by its declared type
TitleValid(field, length) ==
    CASE field.type_ = "enum" -> length \in {1, field.max_length}
      [] OTHER                -> field.max_length = 0 \/ length <= field.max_length

ConstrInit ==
    /\ config \in [schema : TitleFields, write_schema : TitleFields \cup {NoSchema},
                   column : TitleColumns, _VALIDATE_SCHEMA_CONSTR : BOOLEAN]
    /\ viewset = <<>>
    /\ call = NoCall
    /\ out = None
    /\ posts = <<>> /\ post_tags = {} /\ next_pk = 1 /\ req = <<>> /\ started = 0

\* GenericModelViewSet.__init__: the constraints are validated when the
\* class is create- or update-capable
ConstructModelViewset ==
    /\ viewset = <<>>
    /\ viewset' = [raised |-> /\ config._VALIDATE_SCHEMA_CONSTR
                              /\ ~validate_schema_constraints(config)]
    /\ UNCHANGED <<config, call, out, posts, post_tags, next_pk, req, started>>

\* POST / with a title of the given length: the body is validated by the
\* request body type; a read-only field of `schema` is not stored
CreateTitle ==
    /\ viewset # <<>> /\ ~viewset.raised
    /\ config._VALIDATE_SCHEMA_CONSTR
    /\ ~call.made
    /\ \E length \in 0..MaxTitleLen :
           /\ call' = [made |-> TRUE, length |-> length]
           /\ out' = IF ~TitleValid(title_body_type(config), length)
                     THEN [status |-> 422, stored |-> FALSE]
                     ELSE [status |-> 201, stored |-> ~config.schema.read_only]
    /\ UNCHANGED <<config, viewset, posts, post_tags, next_pk, req, started>>

ConstrNext == ConstructModelViewset \/ CreateTitle

SpecConstr == ConstrInit /\ [][ConstrNext]_vars

(***************************************************************************)
(* SpecFilter: FilterBy.setup is called for a sequence of filter           *)
(* declarations, then a filter instance is iterated.  `config` holds the   *)
(* class attribute FilterBy.fields, `viewset` the classes setup returned.  *)
(***************************************************************************)
MaxSetups == 3

\* The filter declarations: classes with some of these annotated fields
FilterDeclarations == SUBSET {"slug", "id", "title"} \ {{}}

\* FilterBy.setup: the fields of the declaration are assigned to cls.fields,
\* cls being FilterBy, and a new class with the bases (FilterBy, data_cls)
\* is returned
FilterBy_setup(dependency_class) ==
    [fields |-> dependency_class, returned |-> [data_cls |-> dependency_class]]

\* <returned class>.fields: the new class has no attribute of its own, the
\* lookup ends at FilterBy.fields
fields_of(filter_class) == config.fields

\* FilterBy.items of an instance with the given attribute values
items(filter_class, values) ==
    {key \in fields_of(filter_class) : key \in DOMAIN values /\ values[key] # None}

FilterInit ==
    /\ config = [fields |-> {}]
    /\ viewset = <<>>
    /\ call = NoCall
    /\ out = None
    /\ posts = <<>> /\ post_tags = {} /\ next_pk = 1 /\ req = <<>> /\ started = 0

\* FilterableListViewset.get_list_dependencies of one more viewset
SetupFilter ==
    /\ Len(viewset) < MaxSetups
    /\ ~call.made
    /\ \E declaration \in FilterDeclarations :
           /\ config' = [fields |-> FilterBy_setup(declaration).fields]
           /\ viewset' = Append(viewset, FilterBy_setup(declaration).returned)
    /\ UNCHANGED <<call, out, posts, post_tags, next_pk, req, started>>

\* A request to the i-th viewset: its filter is instantiated from the query
\* parameters and iterated
FilterItems(i) ==
    /\ ~call.made
    /\ \E values \in [viewset[i].data_cls -> {None, IntV(1)}] :
           /\ call' = [made |-> TRUE, filter |-> i, values |-> values]
           /\ out' = [items |-> items(viewset[i], values)]
    /\ UNCHANGED <<config, viewset, posts, post_tags, next_pk, req, started>>

FilterNext == SetupFilter \/ \E i \in DOMAIN viewset : FilterItems(i)

SpecFilter == FilterInit /\ [][FilterNext]_vars

(***************************************************************************)
(* SpecQuery: construct_query for an inclusion tree over the model Post.   *)
(* A selected element is a column's name, the name of a related model, or  *)
(* "None".                                                                 *)
(***************************************************************************)
\* The ForeignKeyField columns with their rel_model
ForeignKeys == [author |-> "Author"]

\* Model.map_props_dependencies: the @depends_on declarations
_model_props_dependencies ==
    [urlpath |-> {"slug"}, url |-> {"slug"}, status |-> {"author"}]

\* GenericModelViewSet.construct_query without extra fields: the selected
\* elements and the joined models
construct_query(fields) ==
    LET fk_ids == {field_name \in fields :
                      field_name \notin _model_fields /\ endswith(field_name, FK_FIELD_POSTFIX)}
        props  == {field_name \in fields : field_name \notin _model_fields} \ fk_ids
        dependencies == UNION {IF field_name \in DOMAIN _model_props_dependencies
                               THEN _model_props_dependencies[field_name] ELSE {}
                               : field_name \in props}
        fks == {field_name \in fields \cap _model_fields : field_name \in DOMAIN ForeignKeys}
        rel_models == {ForeignKeys[fk] : fk \in fks \cup (dependencies \cap DOMAIN ForeignKeys)}
        selected ==
            \* self._model_fields.get(<name without _id>): the column, or None
            {IF strip_postfix(field_name) \in _model_fields
             THEN strip_postfix(field_name) ELSE "None" : field_name \in fk_ids}
                \cup dependencies \cup rel_models
                \cup ((fields \cap _model_fields) \ fks)
    IN  [selected |-> IF selected # {} THEN selected ELSE {pk_field_name},
         joined   |-> rel_models]

\* The names a tree may hold: columns, a foreign key and its _id form,
\* computed properties, and names that belong to nothing
QueryNames ==
    {"id", "title", "author", "author_id", "url", "status", "foo", "foo_id", "title_id"}

QueryInit ==
    /\ config = <<>>
    /\ viewset = <<>>
    /\ call = NoCall
    /\ out = None
    /\ posts = <<>> /\ post_tags = {} /\ next_pk = 1 /\ req = <<>> /\ started = 0

ConstructQuery ==
    /\ ~call.made
    /\ \E fields \in SUBSET QueryNames :
           /\ call' = [made |-> TRUE, fields |-> fields]
           /\ out' = construct_query(fields)
    /\ UNCHANGED <<config, viewset, posts, post_tags, next_pk, req, started>>

QueryNext == ConstructQuery

SpecQuery == QueryInit /\ [][QueryNext]_vars

(***************************************************************************)
(* SpecSignature: patch_endpoint_signature for the dependencies of the     *)
(* mixins, a core endpoint and the user's handler.  A parameter is its     *)
(* name, its kind and the declaration it comes from (which stands for its  *)
(* annotation and default).                                                *)
(***************************************************************************)
MaxHandlerParams == 2

POSITIONAL_OR_KEYWORD == "POSITIONAL_OR_KEYWORD"
KEYWORD_ONLY == "KEYWORD_ONLY"
VAR_KEYWORD == "VAR_KEYWORD"

_ENDPOINT_PARAM_KINDS == {KEYWORD_ONLY, POSITIONAL_OR_KEYWORD}

\* Faulty variant: no kind counts as positional
_POS_PARAM_KINDS_none == {}

_POS_PARAM_KINDS == {"POSITIONAL_ONLY", POSITIONAL_OR_KEYWORD}

Parameter(name, kind, declared_by) ==
    [name |-> name, kind |-> kind, declared_by |-> declared_by]

\* The signatures of the core endpoints: list, retrieve, create, destroy,
\* update / update_partial
EndpointSignatures ==
    {<<Parameter("request", KEYWORD_ONLY, "endpoint"),
       Parameter("params", VAR_KEYWORD, "endpoint")>>,
     <<Parameter("pk", POSITIONAL_OR_KEYWORD, "endpoint"),
       Parameter("request", KEYWORD_ONLY, "endpoint"),
       Parameter("params", VAR_KEYWORD, "endpoint")>>,
     <<Parameter("body", POSITIONAL_OR_KEYWORD, "endpoint"),
       Parameter("request", KEYWORD_ONLY, "endpoint"),
       Parameter("signals", KEYWORD_ONLY, "endpoint"),
       Parameter("params", VAR_KEYWORD, "endpoint")>>,
     <<Parameter("pk", POSITIONAL_OR_KEYWORD, "endpoint"),
       Parameter("request", KEYWORD_ONLY, "endpoint"),
       Parameter("signals", KEYWORD_ONLY, "endpoint"),
       Parameter("params", VAR_KEYWORD, "endpoint")>>,
     <<Parameter("pk", POSITIONAL_OR_KEYWORD, "endpoint"),
       Parameter("body", POSITIONAL_OR_KEYWORD, "endpoint"),
       Parameter("request", KEYWORD_ONLY, "endpoint"),
       Parameter("signals", KEYWORD_ONLY, "endpoint"),
       Parameter("params", VAR_KEYWORD, "endpoint")>>}

\* The sequences over S without a repeated member, up to n long
Distinct(S, n) ==
    {f \in UNION {[1..k -> S] : k \in 0..n} : \A i, j \in DOMAIN f : f[i] = f[j] => i = j}

\* The signatures of the user's handlers: positional parameters, then
\* keyword-only ones, then **params or not
HandlerSignatures ==
    {[i \in DOMAIN pos |-> Parameter(pos[i], POSITIONAL_OR_KEYWORD, "handler")]
        \o [i \in DOMAIN kw |-> Parameter(kw[i], KEYWORD_ONLY, "handler")]
        \o var :
        pos \in Distinct({"pk", "body", "extra"}, MaxHandlerParams),
        kw \in Distinct({"request", "paginator", "option"}, MaxHandlerParams),
        var \in {<<>>, <<Parameter("params", VAR_KEYWORD, "handler")>>}}

\* The dependencies of the mixins, in the order the MRO collects them
Dependencies == Distinct({"fields", "paginator", "filter_by"}, 3)

_build_dependencies_parameters(dependencies) ==
    [i \in DOMAIN dependencies |-> Parameter(dependencies[i], KEYWORD_ONLY, "dependency")]

_get_signature_parameters(signature) ==
    SelectSeq(signature, LAMBDA param : param.kind \in _ENDPOINT_PARAM_KINDS)

\* Faulty variant: nothing is filtered out
distinct_all(sequence) == sequence

\* helpers.distinct with key_getter = attrgetter('name'): the first
\* parameter of each name, in order
distinct(sequence) ==
    LET kept == {i \in DOMAIN sequence :
                    \A j \in 1..(i - 1) : sequence[j].name # sequence[i].name}
        Pick[i \in 0..Len(sequence)] ==
            IF i = 0 THEN <<>>
            ELSE IF i \in kept THEN Append(Pick[i - 1], sequence[i]) ELSE Pick[i - 1]
    IN  Pick[Len(sequence)]

\* unique_parameters.insert(index, param)
insert(sequence, index, param) ==
    SubSeq(sequence, 1, index) \o <<param>> \o SubSeq(sequence, index + 1, Len(sequence))

\* patch_endpoint_signature: the parameters of the patched signature
patch_endpoint_signature(endpoint, handler, dependencies) ==
    LET parameters == distinct(_build_dependencies_parameters(dependencies)
                                  \o _get_signature_parameters(endpoint)
                                  \o _get_signature_parameters(handler))
        Loop[i \in 0..Len(parameters)] ==
            IF i = 0 THEN [unique_parameters |-> <<>>, pos_param_index |-> 0]
            ELSE IF parameters[i].kind \in _POS_PARAM_KINDS
            THEN [unique_parameters |->
                      insert(Loop[i - 1].unique_parameters, Loop[i - 1].pos_param_index,
                             parameters[i]),
                  pos_param_index |-> Loop[i - 1].pos_param_index + 1]
            ELSE [unique_parameters |-> Append(Loop[i - 1].unique_parameters, parameters[i]),
                  pos_param_index |-> Loop[i - 1].pos_param_index]
    IN  Loop[Len(parameters)].unique_parameters

SignatureInit ==
    /\ config = <<>>
    /\ viewset = <<>>
    /\ call = NoCall
    /\ out = None
    /\ posts = <<>> /\ post_tags = {} /\ next_pk = 1 /\ req = <<>> /\ started = 0

\* api_actions adds a route: the endpoint's signature is patched
PatchSignature ==
    /\ ~call.made
    /\ \E endpoint \in EndpointSignatures, handler \in HandlerSignatures,
          dependencies \in Dependencies :
           /\ call' = [made |-> TRUE, endpoint |-> endpoint, handler |-> handler,
                       dependencies |-> dependencies]
           /\ out' = [parameters |-> patch_endpoint_signature(endpoint, handler, dependencies)]
    /\ UNCHANGED <<config, viewset, posts, post_tags, next_pk, req, started>>

SignatureNext == PatchSignature

SpecSignature == SignatureInit /\ [][SignatureNext]_vars

(***************************************************************************)
(* SpecPrefetch: prefetch_related over a collection of entities read from  *)
(* the storage.  An entity is the row it was read from and its attributes; *)
(* the attribute id is the value of the primary key only when the primary  *)
(* key is the column id and the query selected it.                         *)
(***************************************************************************)
MaxEntities == 3
MaxRelations == 2

EntityRows == 1..3
RelatedRows == 1..2
RelatedSlug == [r \in RelatedRows |-> IF r = 1 THEN "python" ELSE "tla"]

\* The rows of the associative table, in the order the query returns them
ThroughTables ==
    UNION {[1..n -> [post : EntityRows \ {3}, tag : RelatedRows]] : n \in 0..MaxRelations}

\* Prefetch(field, attr_name, ids_only) of build_prefetch_config
PrefetchConfigs ==
    {<<[attr_name |-> "tags", ids_only |-> FALSE]>>,
     <<[attr_name |-> "tags_ids", ids_only |-> TRUE]>>,
     <<[attr_name |-> "tags", ids_only |-> FALSE], [attr_name |-> "tags_ids", ids_only |-> TRUE]>>}

\* The model instance built from a row of the query: the attribute id is
\* absent when the primary key has another name, None when not selected
Entity(row, primary_key, pk_selected) ==
    [row |-> row,
     attrs |-> IF primary_key # "id" THEN EmptyMap
               ELSE [a \in {"id"} |-> IF pk_selected THEN IntV(row) ELSE None]]

prefetch_related(objects, through, prefetch) ==
    IF \E i \in DOMAIN objects : "id" \notin DOMAIN objects[i].attrs
    THEN [k |-> "raise", error |-> "AttributeError"]
    ELSE
    LET ids == {objects[i].attrs.id : i \in DOMAIN objects}
        relations == SelectSeq(through, LAMBDA relation : IntV(relation.post) \in ids)
        related(relation, ids_only) ==
            IF ids_only THEN IntV(relation.tag)
            ELSE MapV([id |-> IntV(relation.tag), slug |-> StrV(RelatedSlug[relation.tag])])
        mapping(ids_only, obj_id) ==
            LET own == SelectSeq(relations, LAMBDA relation : IntV(relation.post) = obj_id)
            IN  ListV([n \in DOMAIN own |-> related(own[n], ids_only)])
        prefetched_data(obj) ==
            [a \in {prefetch[c].attr_name : c \in DOMAIN prefetch} |->
                LET c == CHOOSE c \in DOMAIN prefetch : prefetch[c].attr_name = a
                IN  mapping(prefetch[c].ids_only, obj.attrs.id)]
    IN  [yielded |->
            [i \in DOMAIN objects |->
                [row |-> objects[i].row,
                 attrs |-> Merge(objects[i].attrs, prefetched_data(objects[i]))]]]

PrefetchInit ==
    /\ config \in [primary_key : {"id", "uuid"}, pk_selected : BOOLEAN,
                   through : ThroughTables, prefetch : PrefetchConfigs]
    /\ config.primary_key = "uuid" => config.pk_selected
    /\ viewset = <<>>
    /\ call = NoCall
    /\ out = None
    /\ posts = <<>> /\ post_tags = {} /\ next_pk = 1 /\ req = <<>> /\ started = 0

\* ModelListViewset.list: the rows of the query become entities and
\* prefetch_related is drained
PrefetchRelated ==
    /\ ~call.made
    /\ \E rows \in UNION {[1..n -> EntityRows] : n \in 0..MaxEntities} :
           LET objects == [i \in DOMAIN rows |->
                               Entity(rows[i], config.primary_key, config.pk_selected)]
           IN  /\ call' = [made |-> TRUE, rows |-> rows]
               /\ out' = prefetch_related(objects, config.through, config.prefetch)
    /\ UNCHANGED <<config, viewset, posts, post_tags, next_pk, req, started>>

PrefetchNext == PrefetchRelated

SpecPrefetch == PrefetchInit /\ [][PrefetchNext]_vars

(***************************************************************************)
(* Properties of Schema.serialize (SpecSer).                               *)
(***************************************************************************)
\* The objects of a serialize result: the items of a list, or the one mapping
Objects(v) == IF v.k = "list" THEN {v.items[i] : i \in 1..Len(v.items)} ELSE {v}

\* No mapping serialized for `cls`, at any nesting level, has a key that is a
\* write-only field of the schema it was serialized with
RECURSIVE NoWriteOnlyKey(_, _)
NoWriteOnlyKey(cls, v) ==
    \A o \in Objects(v) :
        o.k = "map" =>
            /\ DOMAIN o.m \cap get_write_only_fields(cls) = {}
            /\ \A name \in DOMAIN o.m :
                   is_subschema(SchemaFieldTypes(cls)[name]) =>
                       NoWriteOnlyKey(SchemaFieldTypes(cls)[name], o.m[name])

\* C1: whatever the schema configuration, the entity, the inclusion tree and
\* the full flag, no write-only field of a schema is a key of what serialize
\* returns for it, at the top level or in any nested sub-schema object.
C1_WriteOnlyNeverSerialized ==
    call.made => NoWriteOnlyKey("Model", out)

\* C1 witness: a full serialization whose tree names write-only fields at
\* both levels, with a write-only field in the innermost schema as well, and
\* whose output reaches the innermost object
C1_Witness ==
    /\ call.made /\ call.full /\ call.obj = FullEntity
    /\ "title" \in DOMAIN call.fields /\ "title" \in get_write_only_fields("Model")
    /\ "meta" \in DOMAIN call.fields
    /\ "description" \in call.fields["meta"]
    /\ "description" \in get_write_only_fields("ModelMeta")
    /\ "note" \in get_write_only_fields("Detail")
    /\ "meta" \in DOMAIN out.m
    /\ "detail" \in DOMAIN out.m["meta"].m
    /\ DOMAIN out.m["meta"].m["detail"].m = {"kind"}

\* C3 (as claimed): serialize without an inclusion tree and with full=False
\* returns mappings whose key set is exactly get_default_readable_fields().
C3_DefaultKeysExact ==
    (call.made /\ DOMAIN call.fields = {} /\ ~call.full) =>
        \A o \in Objects(out) : DOMAIN o.m = get_default_readable_fields("Model")

\* C4 (as claimed): when meta is requested as meta(x) with x readable in
\* ModelMeta and not default-readable there, the serialized meta object has
\* every default-readable field of ModelMeta and x; requested sub-fields that
\* are not readable in ModelMeta are dropped.
C4_SubfieldsMergedWithDefaults ==
    (call.made /\ ~call.full /\ "meta" \in DOMAIN call.fields
               /\ "meta" \in get_readable_fields("Model")) =>
        \A o \in Objects(out) :
            \A x \in call.fields["meta"] :
                /\ (x \in get_readable_fields("ModelMeta") \ get_default_readable_fields("ModelMeta")) =>
                       (get_default_readable_fields("ModelMeta") \cup {x}) \subseteq DOMAIN o.m["meta"].m
                /\ (x \notin get_readable_fields("ModelMeta")) => x \notin DOMAIN o.m["meta"].m

\* C17: serialize of a sequence, a generator or an asynchronous sequence of n
\* entities is a list of n items, the i-th being the serialization of the
\* i-th entity in input / emission order.
C17_SequenceOrderPreserved ==
    (call.made /\ call.obj.k \in {"list", "gen", "agen"})
    => /\ out.k = "list"
       /\ Len(out.items) = Len(call.obj.items)
       /\ \A i \in 1..Len(call.obj.items) :
              out.items[i] = serialize("Model", call.obj.items[i], call.fields, TRUE, call.full)

C17_Witness ==
    /\ call.made /\ call.obj.k = "agen"
    /\ Len(out.items) = 3
    /\ out.items[1] = out.items[2] /\ out.items[2] # out.items[3]

\* C22: an emitted field holds the entity's own value whenever the entity
\* has a value for it, the empty values 0, '' and [] included; the declared
\* default is emitted only for a value that is missing.
C22_OwnValueEmitted ==
    (call.made /\ call.obj.k = "map") =>
        \A name \in DOMAIN out.m :
            (/\ name \in DOMAIN call.obj.m
             /\ ~is_subschema(SchemaFieldTypes("Model")[name])
             /\ call.obj.m[name].k # "method")
            => out.m[name] = jsonable_encoder(call.obj.m[name])

(***************************************************************************)
(* Properties of serialize_request_body_for_db (SpecBody).                 *)
(***************************************************************************)
ReadOnlyOrPk == get_read_only_fields("PostSchema") \cup {pk_field_name}

\* C2 (as claimed): no key of the storage data is a read-only field of the
\* schema, and none is the primary key.
C2_NoReadOnlyKeyStored ==
    call.made => DOMAIN out.data \cap ReadOnlyOrPk = {}

\* C2 (amended): a storage key that is a read-only field or the primary key
\* is the column <name> of a body key <name>_id that is itself neither
\* read-only nor the primary key, and it carries the value of <name>_id; the
\* value the body gives for a read-only field or the primary key is never
\* written.
C2_ReadOnlyOnlyThroughFkKey ==
    call.made =>
        LET body == parse_body(call.write_schema, call.payload)
        IN  \A name \in DOMAIN out.data \cap ReadOnlyOrPk :
                \E key \in DOMAIN Postfixed :
                    /\ endswith(key, FK_FIELD_POSTFIX) /\ strip_postfix(key) = name
                    /\ key \notin ReadOnlyOrPk
                    /\ call.on_create \/ key \in DOMAIN call.payload
                    /\ out.data[name] = body.values[key]

\* C2 witness: the body carries the primary key, a read-only column, the
\* read-only foreign key and its _id key; only the last one is written
C2_Witness ==
    /\ call.made
    /\ {"title", "author"} \subseteq get_read_only_fields("PostSchema")
    /\ {"id", "title", "author", "author_id", "slug"} \subseteq DOMAIN call.payload
    /\ call.payload["title"] # None
    /\ DOMAIN out.data = {"slug", "author"}
    /\ out.data["author"] = IntV(1)

(***************************************************************************)
(* Properties of the request lifecycle (Spec).                             *)
(***************************************************************************)
Success == {200, 201, 204}

RelSet(pk) == {row \in post_tags : row[1] = pk}

\* C5: set_related clears and inserts inside one transaction.  While a
\* request is inside set_related, none of its steps but the commit changes
\* the PostTags table that readers see (so after a failed insert the rows
\* that were cleared are all still there), and the commit replaces the
\* cleared rows by the new ones in one step.
C5_SetRelatedAtomic ==
    [][\A c \in Clients :
          InSetRelatedCall(req[c]) /\ req'[c] # req[c] =>
              IF req[c].pc = "rel_commit" /\ req'[c].pc = "fetch"
              THEN post_tags' = (post_tags \ {<<req[c].pk, tag>> : tag \in req[c].cleared})
                                    \cup {<<req[c].pk, tag>> : tag \in req[c].ids}
              ELSE post_tags' = post_tags]_vars

\* C5 witness: an update's insert failed after its clear had run on an
\* entity with a relation row, and the row is still there
C5_Witness ==
    \E c \in Clients :
        /\ req[c].kind = "update_partial" /\ req[c].status = 400
        /\ req[c].detail = "ForeignKeyViolation"
        /\ req[c].cleared = {1} /\ req[c].ids = {1, 9}
        /\ <<req[c].pk, 1>> \in post_tags

\* C6: when a relation write commits that no other relation write on the
\* same entity overlapped, the entity's relation set is exactly the ids of
\* that write, and the relation rows of every other entity are unchanged.
C6_RelationSetIsLastWrite ==
    [][\A c \in Clients :
          req[c].pc = "rel_commit" /\ req'[c].pc = "fetch" /\ ~req[c].overlapped =>
              /\ {row \in post_tags' : row[1] = req[c].pk} = add(req[c].pk, req[c].ids)
              /\ {row \in post_tags' : row[1] # req[c].pk}
                     = {row \in post_tags : row[1] # req[c].pk}]_vars

\* C6 witness: a create wrote tags [1, 2] and a later update wrote [2]; the
\* entity is left with {2} and the first post keeps its row
C6_Witness ==
    \E c \in Clients :
        /\ req[c].kind = "update_partial" /\ req[c].status = 200
        /\ req[c].pk = 2 /\ req[c].cleared = {1, 2} /\ req[c].ids = {2}
        /\ RelSet(2) = {<<2, 2>>}
        /\ <<1, 1>> \in post_tags

\* C7: a handler has run only for a request whose successful response has
\* been produced; a request that failed or was cancelled has no handler run
\* and none left to run.
C7_HandlersOnlyAfterResponse ==
    \A c \in Clients :
        /\ req[c].ran # <<>> =>
               req[c].status \in Success /\ req[c].pc \in {"tasks", "done"}
        /\ req[c].pc = "done" /\ req[c].status \notin Success =>
               req[c].ran = <<>> /\ req[c].bg_tasks = <<>>

\* C7 witness: one request's handler ran after its 201, another request had
\* its handler scheduled and then failed in the response serialization
C7_Witness ==
    \E c, d \in Clients :
        /\ req[c].kind = "create" /\ req[c].status = 201 /\ req[c].ran = <<"on_post_save">>
        /\ req[d].scheduled = <<"on_post_save">> /\ req[d].status = 500
        /\ req[d].ran = <<>> /\ req[d].pc = "done"

\* The handlers a successful request of a kind is to schedule
Expected(kind) ==
    CASE kind \in {"create", "update", "update_partial"} -> viewset.mapping["post_save"]
      [] kind = "destroy" -> viewset.mapping["pre_delete"] \o viewset.mapping["post_delete"]
      [] OTHER -> <<>>

Range(seq) == {seq[i] : i \in 1..Len(seq)}

\* C8: a successful request has scheduled every handler of its kind's
\* signals exactly once (post-save for create and update, pre-delete and
\* post-delete for destroy), and no other request has scheduled any.
C8_HandlersScheduledOnce ==
    \A c \in Clients :
        IF req[c].status \in Success
        THEN /\ Range(req[c].scheduled) = Range(Expected(req[c].kind))
             /\ Len(req[c].scheduled) = Len(Expected(req[c].kind))
        ELSE req[c].pc = "done" => req[c].bg_tasks = <<>>

\* C9: a retrieve, update or destroy whose existence check found no row has
\* ended in 404 with a detail, before the validation hook ran, without a
\* write statement and without a handler scheduled.
C9_NotFoundBeforeAnything ==
    \A c \in Clients :
        req[c].checked /\ ~req[c].existed =>
            /\ req[c].pc = "done" /\ req[c].status = 404
            /\ req[c].detail = "Post not found"
            /\ ~req[c].validated /\ req[c].writes = 0
            /\ req[c].scheduled = <<>> /\ req[c].ran = <<>>

\* C9 witness: an update and a destroy of a key without a row
C9_Witness ==
    \E c, d \in Clients :
        /\ req[c].kind = "update" /\ req[c].checked /\ ~req[c].existed
        /\ req[d].kind = "destroy" /\ req[d].checked /\ ~req[d].existed
        /\ req[c].status = 404 /\ req[d].status = 404

\* The create step of request r has run
CreateRan(r) ==
    /\ r.kind = "create" /\ r.validated /\ r.detail # "invalid"
    /\ r.pc \notin {"validate", "write"} /\ ~r.cancelled

\* C10 (as claimed): a create with an empty body ends in 422 and no write
\* is attempted.
C10_EmptyBodyUnprocessable ==
    \A c \in Clients :
        CreateRan(req[c]) /\ req[c].payload = <<>> =>
            req[c].status = 422 /\ req[c].writes = 0

\* C10 (amended): a create whose body yields no storage data ends in 422
\* 'Empty request body' and attempts no write; a create whose body yields
\* storage data attempts the insert, also when the body is empty and the
\* data are the write schema's defaults.
C10_EmptyDataUnprocessable ==
    \A c \in Clients :
        CreateRan(req[c]) =>
            IF DOMAIN StorageData(req[c], TRUE).data = {}
            THEN /\ req[c].status = 422 /\ req[c].detail = "Empty request body"
                 /\ req[c].writes = 0
            ELSE req[c].writes >= 1

\* C10 witness: an empty body against the all-optional schema was answered
\* 422 by create
C10_Witness ==
    \E c \in Clients :
        /\ CreateRan(req[c]) /\ req[c].payload = <<>>
        /\ viewset.write_schema = "PostSchemaOptional"
        /\ req[c].status = 422 /\ req[c].detail = "Empty request body"
        /\ req[c].writes = 0

\* The constraint that the write statement of request r violates, if r is
\* suspended at that statement
WriteViolation(r) ==
    IF r.pc = "write" /\ r.kind = "create" /\ DOMAIN StorageData(r, TRUE).data # {}
    THEN Violation(posts, next_pk,
                   [column \in Columns |->
                       IF column \in DOMAIN StorageData(r, TRUE).data
                       THEN StorageData(r, TRUE).data[column] ELSE ColumnDefault(column)])
    ELSE IF /\ r.pc = "write" /\ r.kind \in {"update", "update_partial"}
            /\ DOMAIN StorageData(r, FALSE).data # {} /\ r.pk \in DOMAIN posts
    THEN Violation(posts, r.pk,
                   [column \in Columns |->
                       IF column \in DOMAIN StorageData(r, FALSE).data
                       THEN StorageData(r, FALSE).data[column] ELSE posts[r.pk][column]])
    ELSE IF r.pc = "rel_insert" /\ \E tag \in r.ids : ~ForeignKeysHold(<<r.pk, tag>>)
    THEN "ForeignKeyViolation"
    ELSE "none"

C12_DatabaseErrorsOpaque ==
    \A c \in Clients :
        req[c].db_error =>
            /\ req[c].pc = "done" /\ req[c].status = 500
            /\ req[c].detail = "Database error" /\ ~req[c].unhandled

\* The request's write step is a statement on the row of its pk: the delete
\* of destroy, or the update of an update whose storage data are not empty
RowStatement(r) ==
    \/ r.kind = "destroy"
    \/ /\ r.kind \in {"update", "update_partial"}
       /\ DOMAIN StorageData(r, FALSE).data # {}

C28_FailedCreateLeavesNothing ==
    \A c \in Clients :
        (/\ req[c].kind = "create" /\ req[c].pc = "done"
         /\ req[c].status \in {400, 422, 500}
         /\ ~req[c].unhandled /\ ~req[c].cancelled)
        => /\ req[c].pk \notin DOMAIN posts
           /\ \A row \in post_tags : row[1] # req[c].pk

\* The body names the column: by its own key or by the key of its id
ColumnNamed(payload, column) ==
    column \in DOMAIN payload \/ (column = "author" /\ "author_id" \in DOMAIN payload)

\* The body names the relation to Tag
RelationNamed(payload) == "tags" \in DOMAIN payload \/ "tags_ids" \in DOMAIN payload

\* C30: no step of a partial update changes a column or a relation set of
\* the target row that the body does not name, or any other row; so a
\* successful PATCH leaves them as they were.
C30_PatchFrame ==
    [][\A c \in Clients :
          (/\ req[c].kind = "update_partial"
           /\ req[c].pc \notin {"idle", "done"}
           /\ req'[c].pc # req[c].pc)
          => /\ DOMAIN posts' = DOMAIN posts
             /\ \A pk \in DOMAIN posts : \A column \in Columns :
                    posts'[pk][column] # posts[pk][column]
                    => pk = req[c].pk /\ ColumnNamed(req[c].payload, column)
             /\ \A row \in (post_tags' \ post_tags) \cup (post_tags \ post_tags') :
                    row[1] = req[c].pk /\ RelationNamed(req[c].payload)]_vars

C30_Witness ==
    \E c \in Clients :
        /\ req[c].kind = "update_partial" /\ req[c].pc = "done" /\ req[c].status = 200
        /\ req[c].pk = 1
        /\ req[c].payload = [title |-> StrV("t2"), slug |-> StrV("s2"),
                             tags_ids |-> ListV(<<1, 2>>)]
        /\ 1 \in DOMAIN posts
        /\ posts[1].title = StrV("t2") /\ posts[1].slug = StrV("s2")
        /\ posts[1].content = StrV("") /\ posts[1].author = None
        /\ post_tags = {<<1, 1>>, <<1, 2>>}

(***************************************************************************)
(* Properties of the field selector (SpecFields).                          *)
(***************************************************************************)
\* The characters a selector may hold: letters, digits, underscore, comma,
\* parentheses and hyphen
SelectorChars ==
    Letters \cup {"0", "1", "2", "3", "4", "5", "6", "7", "8", "9"}
        \cup {"_", ",", "(", ")", "-"}

\* The depth of open parentheses after s, or -1 once a ")" closed nothing
RECURSIVE Depth(_, _)
Depth(s, d) ==
    IF d < 0 \/ s = <<>> THEN d
    ELSE Depth(Tail(s), CASE s[1] = "(" -> d + 1 [] s[1] = ")" -> d - 1 [] OTHER -> d)

Balanced(s) == Depth(s, 0) = 0

\* C13: a selector with unbalanced parentheses or with a character outside
\* letters, digits, underscore, comma, parentheses and hyphen is rejected at
\* the boundary and never parsed into a tree.
C13_MalformedSelectorRejected ==
    (call.made /\ call.op = "fields" /\ call.given
        /\ (~Balanced(call.fields)
                \/ \E i \in DOMAIN call.fields : call.fields[i] \notin SelectorChars))
    => out.status = 422

\* The readable fields of Item: its fields less the write-only ones
ItemReadable ==
    {Chars(name) : name \in SchemaFieldNames("Item") \ config["Item"].write_only_fields}

\* C14: every key of the inclusion tree built by ResponseFields is in the
\* schema's readable field set.
C14_TreeKeysAllowed ==
    (call.made /\ call.op = "fields" /\ out.status = 200)
    => DOMAIN out.data \subseteq ItemReadable

\* C15: joining an inclusion tree into a selector and parsing the selector
\* yields the same tree.
C15_RoundTrip ==
    (call.made /\ call.op = "join") => out.data = call.tree

C15_Witness ==
    /\ call.made /\ call.op = "join"
    /\ Cardinality(DOMAIN call.tree) = 3
    /\ \E field \in DOMAIN call.tree : Cardinality(call.tree[field]) = 2
    /\ \E field \in DOMAIN call.tree : call.tree[field] = {}
    /\ out.data = call.tree

(***************************************************************************)
(* Properties of pagination (SpecList).                                    *)
(***************************************************************************)
\* The limit and the offset of the call are inside the bounds that the
\* viewset's Paginator declares
InsideDeclaredBounds ==
    /\ call.limit >= 1 /\ call.limit <= viewset[call.viewset].Paginator.max_limit
    /\ call.offset >= 0

\* C16: limit=L and offset=O against an ordered collection of N >= L+O items
\* returns exactly L items, the i-th being source item O+i; a limit below 1
\* or above max_limit or a negative offset is answered 422 without a query.
C16_PageOrRejection ==
    (call.made /\ call.limit_given /\ call.offset_given)
    => IF InsideDeclaredBounds
       THEN Len(posts) >= call.limit + call.offset
            => /\ out.status = 200
               /\ Len(out.items) = call.limit
               /\ \A i \in 1..call.limit : out.items[i] = posts[call.offset + i]
       ELSE out.status = 422 /\ ~out.queried

\* C29: the list endpoint of a viewset rejects exactly the values outside the
\* bounds of the viewset's own Paginator declaration and pages with that
\* declaration's defaults, whatever other viewsets were constructed.
C29_OwnBoundsEnforced ==
    call.made =>
        LET own == viewset[call.viewset].Paginator
            limit == IF call.limit_given THEN call.limit ELSE own.default_limit
            offset == IF call.offset_given THEN call.offset ELSE own.default_offset
            inside == /\ call.limit_given => (call.limit >= 1 /\ call.limit <= own.max_limit)
                      /\ call.offset_given =>
                             /\ call.offset >= 0
                             /\ own.max_offset = None \/ call.offset <= own.max_offset.v
        IN  /\ out.status = 422 <=> ~inside
            /\ out.status = 200 =>
                   out.items = paginate_query(posts, [limit |-> limit, offset |-> offset])

(***************************************************************************)
(* Properties of the custom routes (SpecRoutes).                           *)
(***************************************************************************)
\* The path under which the declaration of method m is reachable: its path
\* argument, else its name argument, else the method's name; after a pk
\* segment when it is a detail route
DeclaredPath(m) ==
    LET d == config.declared[m]
        own == IF d.path # <<>> THEN d.path
               ELSE IF d.name # "" THEN <<d.name>> ELSE <<m>>
    IN  IF d.detail THEN <<"5">> \o own ELSE own

\* C18: a GET to the path of a custom route that takes GET is handled by a
\* custom handler declared for that path, never by a standard action: at
\* /<name> for a non-detail route, at /{pk}/<name> for a detail route, the
\* name argument replacing the method's name.
C18_CustomRouteReached ==
    \A m \in DOMAIN config.declared :
        (/\ call.made /\ call.method = "GET"
         /\ "GET" \in config.declared[m].methods
         /\ call.path = DeclaredPath(m))
        => /\ out.status = 200
           /\ out.endpoint \in DOMAIN config.declared
           /\ DeclaredPath(out.endpoint) = call.path
           /\ (\A n \in DOMAIN config.declared \ {m} :
                   DeclaredPath(n) = call.path => "GET" \notin config.declared[n].methods)
              => out.endpoint = m

C18_Witness ==
    /\ call.made /\ call.method = "GET" /\ config.pk_type = "str"
    /\ "m2" \in DOMAIN config.declared
    /\ ~config.declared["m2"].detail /\ config.declared["m2"].name = "n1"
    /\ config.declared["m2"].path = <<>> /\ "GET" \in config.declared["m2"].methods
    /\ call.path = <<"n1">>
    /\ out.endpoint = "m2"

(***************************************************************************)
(* Properties of the schema constraints (SpecConstr).                      *)
(***************************************************************************)
\* C19: a create- or update-capable viewset that was constructed without an
\* error never accepts for storage a string longer than its bounded column.
C19_NoOverlongStringAccepted ==
    (call.made /\ out.stored /\ config.column.type_ = "CharField")
    => call.length <= config.column.max_length

\* Construction raises exactly when the writable string field of `schema`
\* over a bounded column has no maximum length or one above the column's
ConstructionValidatesSchema ==
    (viewset # <<>> /\ config._VALIDATE_SCHEMA_CONSTR /\ config.column.type_ = "CharField"
        /\ ~config.schema.read_only)
    => (viewset.raised <=> ~(config.schema.max_length \in 1..config.column.max_length))

(***************************************************************************)
(* Properties of FilterBy (SpecFilter).                                    *)
(***************************************************************************)
\* C20: each class returned by FilterBy.setup exposes as `fields`, and
\* iterates in items(), exactly the fields of the declaration it was built
\* from, also after later setup calls.
C20_FilterFieldsOwn ==
    /\ \A i \in DOMAIN viewset : fields_of(viewset[i]) = viewset[i].data_cls
    /\ call.made
       => out.items = {key \in DOMAIN call.values : call.values[key] # None}

(***************************************************************************)
(* Properties of construct_query (SpecQuery).                              *)
(***************************************************************************)
\* C23: for every inclusion tree the query selects the primary key column.
C23_PrimaryKeySelected ==
    call.made => pk_field_name \in out.selected

\* The name is no column, no foreign key, not the _id form of a foreign key
\* and has no dependency declaration
Unresolved(name) ==
    /\ name \notin {"id", "title", "slug", "content", "author"}
    /\ name # "author_id"
    /\ name \notin {"urlpath", "url", "status"}

\* C24: a requested name that resolves to nothing is ignored: the query is
\* the one built for the tree without that name, and nothing but columns and
\* related models is selected.
C24_UnresolvedNameIgnored ==
    call.made =>
        \A name \in call.fields :
            Unresolved(name) => /\ out = construct_query(call.fields \ {name})
                                /\ "None" \notin out.selected

(***************************************************************************)
(* Properties of patch_endpoint_signature (SpecSignature).                 *)
(***************************************************************************)
\* The names a signature declares as parameters that are not variadic
Declared(signature) ==
    {signature[i].name : i \in {j \in DOMAIN signature : signature[j].kind # VAR_KEYWORD}}

\* The index of the parameter of the given name in the merged list
IndexOf(name) == CHOOSE i \in DOMAIN out.parameters : out.parameters[i].name = name

Positional(param) == param.kind = POSITIONAL_OR_KEYWORD

\* C25: the merged list holds each name once; a name declared more than once
\* keeps the declaration of the dependency or of the endpoint, the handler's
\* is dropped.
C25_NamesUniquePriorityKept ==
    call.made =>
        LET merged == out.parameters
            deps == {call.dependencies[i] : i \in DOMAIN call.dependencies}
        IN  /\ \A i, j \in DOMAIN merged : merged[i].name = merged[j].name => i = j
            /\ {merged[i].name : i \in DOMAIN merged}
                   = deps \cup Declared(call.endpoint) \cup Declared(call.handler)
            /\ \A i \in DOMAIN merged :
                   merged[i].declared_by =
                       IF merged[i].name \in deps THEN "dependency"
                       ELSE IF merged[i].name \in Declared(call.endpoint) THEN "endpoint"
                       ELSE "handler"

C25_Witness ==
    /\ call.made
    /\ "paginator" \in Declared(call.handler)
    /\ "request" \in Declared(call.handler) /\ "pk" \in Declared(call.handler)
    /\ \E i \in DOMAIN call.dependencies : call.dependencies[i] = "paginator"
    /\ out.parameters[IndexOf("paginator")].declared_by = "dependency"
    /\ out.parameters[IndexOf("request")].declared_by = "endpoint"

\* Positional parameters come first, in declaration order (the endpoint's,
\* then the handler's new ones), and the dependencies keep their order
OrderKept ==
    LET merged == out.parameters
        Before(a, b) == IndexOf(a) < IndexOf(b)
        InOrder(signature) ==
            \A i, j \in DOMAIN signature :
                (/\ i < j
                 /\ Positional(signature[i]) /\ Positional(signature[j])
                 /\ merged[IndexOf(signature[i].name)].declared_by = signature[i].declared_by
                 /\ merged[IndexOf(signature[j].name)].declared_by = signature[j].declared_by)
                => Before(signature[i].name, signature[j].name)
    IN  /\ \A i, j \in DOMAIN merged :
               (Positional(merged[i]) /\ ~Positional(merged[j])) => i < j
        /\ InOrder(call.endpoint) /\ InOrder(call.handler)
        /\ \A i, j \in DOMAIN merged :
               (/\ Positional(merged[i]) /\ Positional(merged[j])
                /\ merged[i].declared_by = "endpoint" /\ merged[j].declared_by = "handler")
               => i < j
        /\ \A i, j \in DOMAIN call.dependencies :
               i < j => Before(call.dependencies[i], call.dependencies[j])

\* C26 (as claimed): the order is kept and the dependency parameters come
\* after the parameters of the core endpoint.
C26_DependenciesAfterCore ==
    call.made =>
        /\ OrderKept
        /\ \A i, j \in DOMAIN out.parameters :
               (/\ out.parameters[i].declared_by = "endpoint"
                /\ out.parameters[j].declared_by = "dependency")
               => i < j

\* C26 (amended): the order is kept and the dependency parameters come after
\* every positional parameter and before the keyword-only parameters of the
\* endpoint and of the handler.
C26_DependenciesBetween ==
    call.made =>
        /\ OrderKept
        /\ \A i, j \in DOMAIN out.parameters :
               (/\ out.parameters[i].declared_by # "dependency"
                /\ out.parameters[j].declared_by = "dependency")
               => (i < j <=> Positional(out.parameters[i]))

C26_Witness ==
    /\ call.made
    /\ Len(call.dependencies) = 3
    /\ Len(out.parameters) = 8
    /\ out.parameters[1].name = "pk" /\ out.parameters[2].name = "body"
    /\ out.parameters[3].name = "extra"
    /\ out.parameters[4].declared_by = "dependency"
    /\ out.parameters[7].name = "request"

(***************************************************************************)
(* Properties of prefetch_related (SpecPrefetch).                          *)
(***************************************************************************)
\* The items of the associative table owned by the row, in table order
OwnRelated(row, ids_only) ==
    LET own == SelectSeq(config.through, LAMBDA relation : relation.post = row)
    IN  ListV([n \in DOMAIN own |->
                  IF ids_only THEN IntV(own[n].tag)
                  ELSE MapV([id |-> IntV(own[n].tag), slug |-> StrV(RelatedSlug[own[n].tag])])])

EachEntityOwnRelated ==
    /\ "yielded" \in DOMAIN out
    /\ Len(out.yielded) = Len(call.rows)
    /\ \A i \in DOMAIN call.rows :
           /\ out.yielded[i].row = call.rows[i]
           /\ \A c \in DOMAIN config.prefetch :
                  /\ config.prefetch[c].attr_name \in DOMAIN out.yielded[i].attrs
                  /\ out.yielded[i].attrs[config.prefetch[c].attr_name]
                         = OwnRelated(call.rows[i], config.prefetch[c].ids_only)

\* C27: every entity is yielded once, in input order, with exactly the
\* related items of its own primary key under each prefetched attribute.
C27_EachEntityOwnRelated == call.made => EachEntityOwnRelated

\* The same for entities whose attribute id holds the primary key
C27_WithIdLoaded ==
    (call.made /\ config.primary_key = "id" /\ config.pk_selected) => EachEntityOwnRelated

C27_Witness ==
    /\ call.made /\ config.primary_key = "id" /\ config.pk_selected
    /\ call.rows = <<2, 3, 1>>
    /\ Len(config.through) = 2
    /\ config.through[1].post = 1 /\ config.through[2].post = 2
    /\ Len(config.prefetch) = 2
    /\ out.yielded[2].attrs.tags = ListV(<<>>)
    /\ out.yielded[3].attrs.tags_ids = ListV(<<IntV(config.through[1].tag)>>)

====
